---------------------------- MODULE Spec2Model ----------------------------
(***************************************************************************)
(* Rule evaluation engines of the invoice system: the field completion     *)
(* engines and the business validation engines (backend/app/core), and the *)
(* part of the processing services that builds the per-invoice result.     *)
(*                                                                         *)
(* One behaviour follows one engine object: `engine` names the class that  *)
(* was constructed.  Expressions are a small abstract syntax; a value is   *)
(* a tagged record, so that null, the empty string and zero stay distinct. *)
(***************************************************************************)
EXTENDS Integers, Sequences, FiniteSets, TLC

VARIABLES
    component,         \* completion or validation: the engine this behaviour follows
    engine,            \* which class of that engine was constructed
    db,                \* reference data: the company row found by name, or none
    rules,             \* self.rules of the engine
    loaded,            \* the list last passed to load_rules (history)
    doc,               \* the domain object being processed
    docBefore,         \* the domain object as it was when the run started (history)
    execution_log,     \* self.execution_log
    trace,             \* one entry per rule iteration of the current run (history)
    visited,           \* ids of the rules the loop has iterated over (history)
    ci,                \* position of the rule loop
    pc,                \* position of the engine: idle, running, done, raised
    runNo,             \* completion runs started on this document
    validation_errors, \* self.validation_errors / errors of the validation run
    vresult,           \* the pair (is_valid, error_messages) returned by validate
    service,           \* which service builds the result entry
    results,           \* result["results"] of the service
    mengine,           \* which copy of InvoiceMergeEngine was constructed
    batch,             \* the invoices handed to the merge engine
    mop,               \* the entry point called: merge, split or merge_and_split
    mpc,               \* position of the merge engine: ready, merged, returned, raised
    merged,            \* merged_invoices inside merge_and_split
    output,            \* the list the entry point returned
    again,             \* what split returns when given its own output
    config,            \* self.config of the query handler: enable_cache, cache_ttl, fallback_value
    cache,             \* self.cache.cache, the OrderedDict of QueryCache, oldest first
    now,               \* datetime.now()
    calls,             \* the lookups made so far and what each returned (history)
    files,             \* xml_files of the batch: a parsed document each, or an unparsable file
    tasks,             \* the coroutines of _batch_completion, one per file
    running,           \* the task that holds the event loop, 0 when none does
    phase,             \* stage of process_batch_invoices: completion, merged, failed
    grouped,           \* the documents handed to the merge stage
    clock,             \* wall-clock time of the batch, in milliseconds
    rulesFile,         \* the content of config/rules.yaml
    services,          \* the InvoiceProcessingService objects: 0 is the global one of main.py
    loads              \* every load of the rule file and how it ended (history)

ruleVars == <<component, engine, db, rules, loaded, doc, docBefore, execution_log, trace,
              visited, ci, pc, runNo, validation_errors, vresult, service, results>>

mergeVars == <<mengine, batch, mop, mpc, merged, output, again>>

queryVars == <<config, cache, now, calls>>

batchVars == <<files, tasks, running, phase, grouped, clock>>

storeVars == <<rulesFile, services, loads>>

otherVars == <<batchVars, storeVars>>

vars == <<ruleVars, mergeVars, queryVars, otherVars>>

\* No merge engine in this behaviour.
MergeIdle ==
    /\ mengine = "none" /\ batch = <<>> /\ mop = "none" /\ mpc = "none"
    /\ merged = <<>> /\ output = <<>> /\ again = <<>>

\* No query handler in this behaviour.
QueryIdle ==
    /\ config = [enable_cache |-> FALSE, cache_ttl |-> 0, fallback_value |-> [t |-> "null", s |-> "", n |-> 0]]
    /\ cache = <<>> /\ now = 0 /\ calls = <<>>

\* No batch service in this behaviour.
BatchIdle ==
    /\ files = <<>> /\ tasks = <<>> /\ running = 0 /\ phase = "none"
    /\ grouped = <<>> /\ clock = 0

\* No rule file in this behaviour.
StoreIdle == rulesFile = <<>> /\ services = <<>> /\ loads = <<>>

OthersIdle == BatchIdle /\ StoreIdle

(***************************************************************************)
(* Bounds of the model.                                                    *)
(***************************************************************************)
MaxRules == 2
MaxItems == 1
MaxRuns == 2
MaxInvoices == 2
MaxLookups == 2
MaxClock == 2
MaxRequests == 2
MaxFiles == 2
MaxLoads == 3

(***************************************************************************)
(* Values.                                                                 *)
(***************************************************************************)
Null == [t |-> "null", s |-> "", n |-> 0]
Str(x) == [t |-> "str", s |-> x, n |-> 0]
Num(k) == [t |-> "num", s |-> "", n |-> k]
BoolV(b) == [t |-> "bool", s |-> "", n |-> IF b THEN 1 ELSE 0]

\* Python truthiness, as used by `if not should_apply` and `if not validation_result`.
Truthy(v) ==
    CASE v.t = "null" -> FALSE
      [] v.t = "str"  -> v.s # ""
      [] v.t = "num"  -> v.n # 0
      [] OTHER        -> v.n = 1

\* An evaluation either returns a value or raises.
Ret(v) == [raised |-> FALSE, v |-> v]
Raise == [raised |-> TRUE, v |-> Null]

(***************************************************************************)
(* Documents.                                                              *)
(***************************************************************************)
DocFields == {"supplier.name", "supplier.tax_no", "customer.email",
              "extensions.supplier_category", "tax_amount", "total_amount"}

NoItem == [tax_rate |-> Null, present |-> FALSE]
Item(rate) == [tax_rate |-> rate, present |-> TRUE]

\* hasattr/getattr walk of a dotted path; an unresolved path is None.
GetField(d, item, path) ==
    IF path = "item.tax_rate" THEN (IF item.present THEN item.tax_rate ELSE Null)
    ELSE IF path \in DocFields THEN d.fields[path]
    ELSE Null

\* SimpleExpressionEvaluator._has_field: None and "" do not exist, zero does.
HasField(v) == ~(v.t = "null") /\ ~(v.t = "str" /\ v.s = "")

\* DatabaseExpressionEvaluator._has_field: numeric zero does not exist either.
HasFieldDb(v) == ~(v.t = "null") /\ ~(v.t = "str" /\ v.s = "") /\ ~(v.t = "num" /\ v.n = 0)

(***************************************************************************)
(* Expressions.  op is one of                                              *)
(*   empty      the empty string (a rule without apply_to)                 *)
(*   lit        a literal                                                  *)
(*   field      invoice.<f> or item.<f>                                    *)
(*   has        has(<f>)            nothas     !has(<f>)                   *)
(*   gt0        <f> > 0                                                    *)
(*   dbq        a reference-data lookup named q on the value of <f>        *)
(*   malformed  has(<f>  with the closing parenthesis missing              *)
(***************************************************************************)
Expr(op, f, q, lit) == [op |-> op, f |-> f, q |-> q, lit |-> lit]
EmptyExpr == Expr("empty", "", "", Null)
Lit(v) == Expr("lit", "", "", v)
FieldOf(f) == Expr("field", f, "", Null)
Has(f) == Expr("has", f, "", Null)
NotHas(f) == Expr("nothas", f, "", Null)
Gt0(f) == Expr("gt0", f, "", Null)
DbQuery(q, f) == Expr("dbq", f, q, Null)
Malformed(f) == Expr("malformed", f, "", Null)

\* The evaluator class an engine constructs.
EvaluatorOf(eng) ==
    CASE eng \in {"cel", "cel_engine"} -> "cel"
      [] eng \in {"cel_async", "cel_engine_async"} -> "cel_async"
      [] eng = "simple"                -> "simple"
      [] OTHER                         -> "db"

\* DatabaseQueryHelper: the row of the company registered under that name.
QueryHelper(dbv, q, arg) ==
    IF arg.t = "str" /\ arg.s \in DOMAIN dbv
    THEN (CASE q = "get_tax_number_by_name"        -> Str(dbv[arg.s].tax_number)
            [] q = "get_company_category_by_name"  -> Str(dbv[arg.s].category)
            [] OTHER                               -> Null)
    ELSE Null

\* DatabaseCELExpressionEvaluator._replace_generic_db_query: the literal spliced
\* into the expression text in place of the db_query(...) call.
ReplaceGenericDbQuery(dbv, q, arg) ==
    LET result == QueryHelper(dbv, q, arg) IN
    CASE q = "get_tax_number_by_name"       -> IF Truthy(result) THEN result ELSE Str("")
      [] q = "get_company_category_by_name" -> IF Truthy(result) THEN result ELSE Str("GENERAL")
      [] OTHER                              -> Null

\* DatabaseExpressionEvaluator._handle_db_query.
HandleDbQuery(dbv, q, arg) ==
    IF arg.t = "null" THEN Null
    ELSE CASE q = "get_tax_number_by_name" ->
                IF arg.t = "str" /\ arg.s = "" THEN Null ELSE QueryHelper(dbv, q, arg)
           [] q = "get_company_category_by_name" ->
                IF arg.t = "str" /\ arg.s = "" THEN Str("GENERAL")
                ELSE (LET result == QueryHelper(dbv, q, arg) IN
                      IF result.t # "null" THEN result ELSE Str("GENERAL"))
           [] OTHER -> Null

\* CELExpressionEvaluator.evaluate: compile, run, convert; raises on a syntax
\* error, on an unknown function and on a comparison without overload.
EvaluateCel(e, d, item) ==
    LET v == GetField(d, item, e.f) IN
    CASE e.op = "lit"    -> Ret(e.lit)
      [] e.op = "field"  -> Ret(v)
      [] e.op = "has"    -> Ret(BoolV(HasField(v)))
      [] e.op = "nothas" -> Ret(BoolV(~HasField(v)))
      [] e.op = "gt0"    -> IF v.t = "num" THEN Ret(BoolV(v.n > 0)) ELSE Raise
      [] OTHER           -> Raise

\* DatabaseCELExpressionEvaluator.evaluate_async: every exception is swallowed
\* and None is returned in its place.
EvaluateAsync(e, d, item, dbv) ==
    LET r == IF e.op = "dbq"
             THEN Ret(ReplaceGenericDbQuery(dbv, e.q, GetField(d, item, e.f)))
             ELSE EvaluateCel(e, d, item)
    IN IF r.raised THEN Ret(Null) ELSE r

\* DatabaseExpressionEvaluator.evaluate.
EvaluateDb(e, d, item, dbv) ==
    LET v == GetField(d, item, e.f) IN
    CASE e.op = "lit"    -> Ret(e.lit)
      [] e.op = "field"  -> Ret(v)
      [] e.op = "has"    -> Ret(BoolV(HasFieldDb(v)))
      [] e.op = "nothas" -> Ret(BoolV(~HasFieldDb(v)))
      [] e.op = "gt0"    -> IF v.t = "num" THEN Ret(BoolV(v.n > 0))
                            ELSE IF v.t = "null" THEN Ret(BoolV(FALSE)) ELSE Raise
      [] e.op = "dbq"    -> Ret(HandleDbQuery(dbv, e.q, v))
      [] OTHER           -> Ret(Null)

\* SimpleExpressionEvaluator.evaluate: a call of a function that is not
\* registered and a has( without its closing parenthesis fall through to the
\* field access, which finds nothing.
EvaluateSimple(e, d, item) ==
    LET v == GetField(d, item, e.f) IN
    CASE e.op = "lit"    -> Ret(e.lit)
      [] e.op = "field"  -> Ret(v)
      [] e.op = "has"    -> Ret(BoolV(HasField(v)))
      [] e.op = "nothas" -> Ret(BoolV(~HasField(v)))
      [] e.op = "gt0"    -> IF v.t = "num" THEN Ret(BoolV(v.n > 0))
                            ELSE IF v.t = "null" THEN Ret(BoolV(FALSE)) ELSE Raise
      [] OTHER           -> Ret(Null)

Evaluate(eng, e, d, item, dbv) ==
    CASE EvaluatorOf(eng) = "cel"       -> EvaluateCel(e, d, item)
      [] EvaluatorOf(eng) = "cel_async" -> EvaluateAsync(e, d, item, dbv)
      [] EvaluatorOf(eng) = "simple"    -> EvaluateSimple(e, d, item)
      [] OTHER                          -> EvaluateDb(e, d, item, dbv)

(***************************************************************************)
(* Rules (models/rules.py) and load_rules.                                 *)
(***************************************************************************)
Rule(id, prio, active, guard, target, expression) ==
    [id |-> id, rule_name |-> "R" \o ToString(id), priority |-> prio, active |-> active,
     apply_to |-> guard, target_field |-> target, rule_expression |-> expression,
     error_message |-> "M" \o ToString(id), rule_type |-> "DEFAULT"]

\* A completion rule whose rule_type is given.
Typed(r, rule_type) == [r EXCEPT !.rule_type = rule_type]

RECURSIVE InsertAfterEqual(_, _)
InsertAfterEqual(r, s) ==
    IF s = <<>> THEN <<r>>
    ELSE IF Head(s).priority >= r.priority
         THEN <<Head(s)>> \o InsertAfterEqual(r, Tail(s))
         ELSE <<r>> \o s

RECURSIVE Reversed(_)
Reversed(s) == IF s = <<>> THEN <<>> ELSE Append(Reversed(Tail(s)), Head(s))

RECURSIVE SortedAscending(_)
SortedAscending(s) ==
    IF s = <<>> THEN <<>>
    ELSE LET rest == SortedAscending(SubSeq(s, 1, Len(s) - 1))
             r == s[Len(s)]
             k == Cardinality({i \in 1..Len(rest) : rest[i].priority <= r.priority})
         IN SubSeq(rest, 1, k) \o <<r>> \o SubSeq(rest, k + 1, Len(rest))

\* A sort that reverses an ascending sort: equal priorities come out in reverse.
SortedThenReversed(rs) == Reversed(SortedAscending(rs))

\* sorted(rules, key=lambda r: r.priority, reverse=True): descending and stable.
RECURSIVE SortedByPriority(_)
SortedByPriority(rs) ==
    IF rs = <<>> THEN <<>>
    ELSE InsertAfterEqual(rs[Len(rs)], SortedByPriority(SubSeq(rs, 1, Len(rs) - 1)))

(***************************************************************************)
(* Writing a field.                                                        *)
(***************************************************************************)
ItemFields == {"tax_rate"}
IsItemsTarget(target) == target \in {"items[].tax_rate", "items[].nonexistent"}
ItemFieldOf(target) == IF target = "items[].tax_rate" THEN "tax_rate" ELSE "nonexistent"

\* CELExpressionEvaluator._set_field_value: navigate to the parent, then set
\* the last segment; False when a segment does not exist.
SetFieldValue(d, target, v) ==
    IF target \in DocFields
    THEN [ok |-> TRUE, d |-> [d EXCEPT !.fields[target] = v]]
    ELSE [ok |-> FALSE, d |-> d]

SetItemField(d, i, v) == [d EXCEPT !.items[i] = Item(v)]

(***************************************************************************)
(* What one loop iteration leaves behind: the document, the log entries    *)
(* appended, the history of what was evaluated, and whether an exception   *)
(* left the engine.                                                        *)
(***************************************************************************)
LogEntry(status, r, idx) ==
    [type |-> "completion", status |-> status, rule_name |-> r.rule_name,
     target_field |-> r.target_field, item_index |-> idx]

Seen(r, idx, guard, value, wrote, v) ==
    [id |-> r.id, item |-> idx, guard |-> guard, value |-> value, wrote |-> wrote,
     field |-> r.target_field, v |-> v]

Out(d, logs, trs, raised) == [d |-> d, logs |-> logs, trs |-> trs, raised |-> raised]

GuardTag(r) == IF r.apply_to.op = "empty" THEN "none" ELSE "true"

\* The part every engine shares once the guard g and the value val are known:
\* falsy guard, None value, write.  onSkip is the log a falsy guard leaves,
\* strict tells whether a failed write is logged as failed (or as success).
Outcome(r, d, idx, g, val, set, onSkip, strict) ==
    IF g.raised
    THEN Out(d, <<LogEntry("error", r, idx)>>,
             <<Seen(r, idx, "raised", "notevaluated", FALSE, Null)>>, FALSE)
    ELSE IF ~Truthy(g.v)
    THEN Out(d, onSkip, <<Seen(r, idx, "false", "notevaluated", FALSE, Null)>>, FALSE)
    ELSE IF val.raised
    THEN Out(d, <<LogEntry("error", r, idx)>>,
             <<Seen(r, idx, GuardTag(r), "raised", FALSE, Null)>>, FALSE)
    ELSE IF val.v = Null
    THEN Out(d, <<>>, <<Seen(r, idx, GuardTag(r), "null", FALSE, Null)>>, FALSE)
    ELSE IF set.ok
    THEN Out(set.d, <<LogEntry("success", r, idx)>>,
             <<Seen(r, idx, GuardTag(r), "value", TRUE, val.v)>>, FALSE)
    ELSE Out(d, <<LogEntry(IF strict THEN "failed" ELSE "success", r, idx)>>,
             <<Seen(r, idx, GuardTag(r), "value", FALSE, val.v)>>, FALSE)

\* A guard that is evaluated against the document as the run received it.
GuardOnSnapshot(eng, r, d, item, dbv) ==
    IF r.apply_to.op = "empty" THEN Ret(BoolV(TRUE))
    ELSE Evaluate(eng, r.apply_to, docBefore, item, dbv)

\* A guard that is never consulted.
GuardIgnored(eng, r, d, item, dbv) == Ret(BoolV(TRUE))

GuardOf(eng, r, d, item, dbv) ==
    IF r.apply_to.op = "empty" THEN Ret(BoolV(TRUE))
    ELSE Evaluate(eng, r.apply_to, d, item, dbv)

\* CELFieldCompletionEngine.complete, the branch of a rule on a document field.
ProcessRuleCel(r, d, dbv) ==
    LET val == Evaluate("cel", r.rule_expression, d, NoItem, dbv) IN
    Outcome(r, d, 0, GuardOf("cel", r, d, NoItem, dbv), val,
            SetFieldValue(d, r.target_field, val.v), <<>>, TRUE)

\* DatabaseCELFieldCompletionEngine._process_single_field_rule_async.
ProcessSingleFieldRuleAsync(r, d, dbv) ==
    LET val == Evaluate("cel_async", r.rule_expression, d, NoItem, dbv) IN
    Outcome(r, d, 0, GuardOf("cel_async", r, d, NoItem, dbv), val,
            SetFieldValue(d, r.target_field, val.v), <<LogEntry("skipped", r, 0)>>, TRUE)

\* The test of FieldCompletionEngine.complete for rule_type DEFAULT: the rule
\* is passed over when the target holds a value other than None, "" and 0.
\* Every other rule_type goes on to the write.
DefaultKeeps(r, current) ==
    /\ r.rule_type = "DEFAULT"
    /\ current # Null /\ current # Str("") /\ current # Num(0)

\* FieldCompletionEngine.complete (rule_engine.py), what follows the guard g:
\* the rule_type test, the expression, the write.  The result of
\* _set_field_value is not looked at.
AfterGuardSimple(r, d, idx, g, current, val, set) ==
    IF g.raised
    THEN Out(d, <<>>, <<Seen(r, idx, "raised", "notevaluated", FALSE, Null)>>, TRUE)
    ELSE IF Truthy(g.v) /\ DefaultKeeps(r, current)
    THEN Out(d, <<>>, <<Seen(r, idx, GuardTag(r), "kept", FALSE, Null)>>, FALSE)
    ELSE Outcome(r, d, idx, g, val, set, <<>>, FALSE)

\* FieldCompletionEngine.complete, the branch of a rule on a document field.
CompleteRuleSimple(r, d, dbv) ==
    LET val == Evaluate("simple", r.rule_expression, d, NoItem, dbv) IN
    AfterGuardSimple(r, d, 0, GuardOf("simple", r, d, NoItem, dbv),
                     GetField(d, NoItem, r.target_field), val,
                     SetFieldValue(d, r.target_field, val.v))

\* One pass of the loop over domain.items, for item i.
ItemIteration(eng, r, d, i, dbv) ==
    LET val == Evaluate(eng, r.rule_expression, d, d.items[i], dbv)
        set == IF ItemFieldOf(r.target_field) \in ItemFields
               THEN [ok |-> TRUE, d |-> SetItemField(d, i, val.v)]
               ELSE [ok |-> FALSE, d |-> d]
        g == GuardOf(eng, r, d, d.items[i], dbv)
    IN IF eng = "simple"
       THEN AfterGuardSimple(r, d, i, g,
                             IF ItemFieldOf(r.target_field) \in ItemFields
                             THEN d.items[i].tax_rate ELSE Null,
                             val, set)
       ELSE Outcome(r, d, i, g, val, set, <<>>, TRUE)

\* _process_items_rule and _process_items_rule_async: every item in turn, each
\* against the document as the earlier items left it.
RECURSIVE ProcessItemsRule(_, _, _, _, _)
ProcessItemsRule(eng, r, d, n, dbv) ==
    IF n = 0 THEN Out(d, <<>>, <<>>, FALSE)
    ELSE LET before == ProcessItemsRule(eng, r, d, n - 1, dbv)
             this == ItemIteration(eng, r, before.d, n, dbv)
         IN IF before.raised THEN before
            ELSE Out(this.d, before.logs \o this.logs, before.trs \o this.trs, this.raised)

\* DatabaseFieldCompletionEngine.complete, one rule: the guard is evaluated
\* outside the try block, and the result of the write is not looked at.
CompleteRuleDb(r, d, dbv) ==
    LET g == GuardOf("db", r, d, NoItem, dbv)
        val == Evaluate("db", r.rule_expression, d, NoItem, dbv)
    IN IF g.raised
       THEN Out(d, <<>>, <<Seen(r, 0, "raised", "notevaluated", FALSE, Null)>>, TRUE)
       ELSE Outcome(r, d, 0, g, val, SetFieldValue(d, r.target_field, val.v), <<>>, FALSE)

\* The body of `for rule in self.rules` of the engine's complete.
CompleteRule(eng, r, d, dbv) ==
    IF ~r.active
    THEN Out(d, <<>>, <<Seen(r, 0, "inactive", "notevaluated", FALSE, Null)>>, FALSE)
    ELSE IF eng = "db" THEN CompleteRuleDb(r, d, dbv)
    ELSE IF IsItemsTarget(r.target_field) THEN ProcessItemsRule(eng, r, d, Len(d.items), dbv)
    ELSE IF eng = "simple" THEN CompleteRuleSimple(r, d, dbv)
    ELSE IF eng = "cel" THEN ProcessRuleCel(r, d, dbv)
    ELSE ProcessSingleFieldRuleAsync(r, d, dbv)

(***************************************************************************)
(* Inputs: the rule pools, the documents and the reference data.           *)
(***************************************************************************)
CompletionPool ==
    <<Rule(1, 100, TRUE, NotHas("supplier.tax_no"), "supplier.tax_no",
           DbQuery("get_tax_number_by_name", "supplier.name")),
      Rule(2, 90, TRUE, EmptyExpr, "extensions.supplier_category",
           DbQuery("get_company_category_by_name", "supplier.name")),
      Rule(3, 80, TRUE, Has("extensions.supplier_category"), "tax_amount", Lit(Num(6))),
      Rule(4, 90, TRUE, NotHas("customer.email"), "customer.email",
           DbQuery("get_email_by_name", "supplier.name")),
      Rule(5, 80, TRUE, Malformed("customer.email"), "customer.email", Lit(Str("e"))),
      Rule(6, 100, TRUE, NotHas("customer.email"), "customer.email",
           FieldOf("supplier.tax_no")),
      Rule(7, 90, FALSE, EmptyExpr, "tax_amount", Lit(Num(9))),
      Rule(8, 80, TRUE, NotHas("item.tax_rate"), "items[].tax_rate", Lit(Num(13))),
      Rule(9, 80, TRUE, EmptyExpr, "supplier.nonexistent", Lit(Str("x")))>>

SeqsUpTo(S, n) == UNION {[1..k -> S] : k \in 0..n}

\* The lists of at most MaxRules different rules of a pool, in any order.
RuleLists(pool) ==
    {[i \in 1..Len(s) |-> pool[s[i]]] :
        s \in {q \in SeqsUpTo(DOMAIN pool, MaxRules) :
                 \A i, j \in 1..Len(q) : i # j => q[i] # q[j]}}

Doc(taxNo, total, items) ==
    [fields |-> [f \in DocFields |->
                    CASE f = "supplier.name"   -> Str("S")
                      [] f = "supplier.tax_no" -> taxNo
                      [] f = "total_amount"    -> total
                      [] OTHER                 -> Null],
     items |-> items]

Docs ==
    {Doc(t, a, its) : t \in {Null, Str("T0")}, a \in {Num(0), Num(100)},
                      its \in SeqsUpTo({Item(Null), Item(Num(13))}, MaxItems)}

Dbs == {<<>>, [n \in {"S"} |-> [tax_number |-> "T1", category |-> "TRAVEL"]]}

CompletionEngines == {"cel", "cel_async", "db"}

(***************************************************************************)
(* The completion engine.                                                  *)
(***************************************************************************)
InitCompletion ==
    /\ component = "completion"
    /\ engine \in CompletionEngines
    /\ db \in Dbs
    /\ doc \in Docs
    /\ docBefore = doc
    /\ rules = <<>>
    /\ loaded = <<>>
    /\ execution_log = <<>>
    /\ trace = <<>>
    /\ visited = <<>>
    /\ ci = 0
    /\ pc = "new"
    /\ runNo = 0
    /\ validation_errors = <<>>
    /\ vresult = [is_valid |-> TRUE, errors |-> <<>>]
    /\ service = "none"
    /\ results = <<>>
    /\ MergeIdle
    /\ QueryIdle
    /\ OthersIdle

\* load_rules(rules).
LoadRules ==
    /\ component = "completion"
    /\ pc = "new"
    /\ \E rs \in RuleLists(CompletionPool) :
          /\ rules' = SortedByPriority(rs)
          /\ loaded' = rs
    /\ pc' = "idle"
    /\ UNCHANGED <<component, engine, db, doc, docBefore, execution_log, trace, visited,
                   ci, runNo, validation_errors, vresult, service, results>>
    /\ UNCHANGED <<mergeVars, queryVars, otherVars>>

\* complete(domain) is entered: the log is reset and the loop starts.  A later
\* run is given the document the run before returned.
StartComplete ==
    /\ component = "completion"
    /\ pc \in {"idle", "done"}
    /\ runNo < MaxRuns
    /\ runNo' = runNo + 1
    /\ docBefore' = doc
    /\ execution_log' = <<>>
    /\ trace' = <<>>
    /\ visited' = <<>>
    /\ ci' = 1
    /\ pc' = "running"
    /\ UNCHANGED <<component, engine, db, rules, loaded, doc, validation_errors, vresult,
                   service, results>>
    /\ UNCHANGED <<mergeVars, queryVars, otherVars>>

\* One iteration of `for rule in self.rules`.
CompleteStep ==
    /\ component = "completion"
    /\ pc = "running"
    /\ ci <= Len(rules)
    /\ LET out == CompleteRule(engine, rules[ci], doc, db) IN
          /\ doc' = out.d
          /\ execution_log' = execution_log \o out.logs
          /\ trace' = trace \o out.trs
          /\ visited' = Append(visited, rules[ci].id)
          /\ pc' = IF out.raised THEN "raised" ELSE "running"
          /\ ci' = ci + 1
    /\ UNCHANGED <<component, engine, db, rules, loaded, docBefore, runNo,
                   validation_errors, vresult, service, results>>
    /\ UNCHANGED <<mergeVars, queryVars, otherVars>>

\* A return that hands back the document without its line items.
FinishCompleteDroppingItems ==
    /\ component = "completion"
    /\ pc = "running"
    /\ ci > Len(rules)
    /\ doc' = [doc EXCEPT !.items = <<>>]
    /\ pc' = "done"
    /\ UNCHANGED <<component, engine, db, rules, loaded, docBefore, execution_log,
                   trace, visited, ci, runNo, validation_errors, vresult, service, results>>
    /\ UNCHANGED <<mergeVars, queryVars, otherVars>>

\* `return domain`.
FinishComplete ==
    /\ component = "completion"
    /\ pc = "running"
    /\ ci > Len(rules)
    /\ pc' = "done"
    /\ UNCHANGED <<component, engine, db, rules, loaded, doc, docBefore, execution_log,
                   trace, visited, ci, runNo, validation_errors, vresult, service, results>>
    /\ UNCHANGED <<mergeVars, queryVars, otherVars>>

NextCompletion == LoadRules \/ StartComplete \/ CompleteStep \/ FinishComplete

(***************************************************************************)
(* FieldCompletionEngine of rule_engine.py, the engine that reads          *)
(* rule_type, next to the CEL engine, which does not.                      *)
(***************************************************************************)
RuleTypePool ==
    <<Typed(Rule(21, 100, TRUE, EmptyExpr, "supplier.tax_no", Lit(Str("CN"))), "DEFAULT"),
      Typed(Rule(22, 100, TRUE, EmptyExpr, "supplier.tax_no", Lit(Str("CN"))), "OVERRIDE"),
      Typed(Rule(23, 90, TRUE, EmptyExpr, "total_amount", Lit(Num(5))), "DEFAULT"),
      Typed(Rule(24, 90, TRUE, Has("supplier.tax_no"), "total_amount", Lit(Num(7))), "OVERRIDE"),
      Typed(Rule(25, 80, TRUE, EmptyExpr, "items[].tax_rate", Lit(Num(6))), "DEFAULT"),
      Typed(Rule(26, 80, TRUE, EmptyExpr, "items[].tax_rate", Lit(Num(6))), "OVERRIDE"),
      Typed(Rule(27, 80, TRUE, EmptyExpr, "supplier.tax_no", FieldOf("customer.email")),
            "OVERRIDE")>>

RuleTypeEngines == {"simple", "cel"}

InitRuleType ==
    /\ component = "completion"
    /\ engine \in RuleTypeEngines
    /\ db = <<>>
    /\ doc \in Docs
    /\ docBefore = doc
    /\ rules = <<>>
    /\ loaded = <<>>
    /\ execution_log = <<>>
    /\ trace = <<>>
    /\ visited = <<>>
    /\ ci = 0
    /\ pc = "new"
    /\ runNo = 0
    /\ validation_errors = <<>>
    /\ vresult = [is_valid |-> TRUE, errors |-> <<>>]
    /\ service = "none"
    /\ results = <<>>
    /\ MergeIdle
    /\ QueryIdle
    /\ OthersIdle

\* load_rules(rules) with rules that carry a rule_type.
LoadTypedRules ==
    /\ component = "completion"
    /\ pc = "new"
    /\ \E rs \in RuleLists(RuleTypePool) :
          /\ rules' = SortedByPriority(rs)
          /\ loaded' = rs
    /\ pc' = "idle"
    /\ UNCHANGED <<component, engine, db, doc, docBefore, execution_log, trace, visited,
                   ci, runNo, validation_errors, vresult, service, results>>
    /\ UNCHANGED <<mergeVars, queryVars, otherVars>>

NextRuleType == LoadTypedRules \/ StartComplete \/ CompleteStep \/ FinishComplete

SpecRuleType == InitRuleType /\ [][NextRuleType]_vars

(***************************************************************************)
(* The validation engine.                                                  *)
(***************************************************************************)
ValidationPool ==
    <<Rule(11, 100, TRUE, EmptyExpr, "total_amount", Gt0("total_amount")),
      Rule(12, 90, TRUE, Has("supplier.tax_no"), "customer.email", Has("customer.email")),
      Rule(13, 90, TRUE, EmptyExpr, "customer.email", Malformed("customer.email")),
      Rule(14, 80, TRUE, Malformed("customer.email"), "tax_amount", Lit(BoolV(TRUE))),
      Rule(15, 80, FALSE, EmptyExpr, "tax_amount", Lit(BoolV(FALSE))),
      Rule(16, 100, TRUE, Gt0("supplier.tax_no"), "supplier.tax_no", Lit(BoolV(TRUE))),
      Rule(17, 90, TRUE, Has("total_amount"), "total_amount", Gt0("total_amount"))>>

ValidationEngines == {"cel", "cel_async", "cel_engine", "cel_engine_async", "db"}

ExceptionText == "rule execution error"

ErrorEntry(r, kind, message) ==
    [rule_name |-> r.rule_name, kind |-> kind, error_message |-> message]

\* The string the engine keeps for a failed rule.
FailedMessage(eng, r) ==
    IF eng \in {"cel", "cel_async"} THEN r.error_message
    ELSE r.rule_name \o ": " \o r.error_message

\* The string the engine keeps for a rule that raised.
RaisedMessage(eng, r) ==
    IF eng \in {"cel", "cel_async"} THEN ExceptionText
    ELSE r.rule_name \o ": " \o ExceptionText

VOut(errs, trs, raised) == [errs |-> errs, trs |-> trs, raised |-> raised]

\* A loop body without the except clause: an exception leaves the engine.
ValidateRuleNoCatch(eng, r, d, dbv) ==
    LET g == GuardOf(eng, r, d, NoItem, dbv)
        val == Evaluate(eng, r.rule_expression, d, NoItem, dbv)
    IN IF g.raised
       THEN VOut(<<>>, <<Seen(r, 0, "raised", "notevaluated", FALSE, Null)>>, TRUE)
       ELSE IF ~Truthy(g.v)
       THEN VOut(<<>>, <<Seen(r, 0, "false", "notevaluated", FALSE, Null)>>, FALSE)
       ELSE IF val.raised
       THEN VOut(<<>>, <<Seen(r, 0, GuardTag(r), "raised", FALSE, Null)>>, TRUE)
       ELSE IF ~Truthy(val.v)
       THEN VOut(<<ErrorEntry(r, "failed", FailedMessage(eng, r))>>,
                 <<Seen(r, 0, GuardTag(r), "failed", FALSE, val.v)>>, FALSE)
       ELSE VOut(<<>>, <<Seen(r, 0, GuardTag(r), "passed", FALSE, val.v)>>, FALSE)

\* The body of `for rule in self.rules` of validate and validate_async: guard,
\* expression, and the except clause around both.
ValidateRuleCel(eng, r, d, dbv) ==
    LET g == GuardOf(eng, r, d, NoItem, dbv)
        val == Evaluate(eng, r.rule_expression, d, NoItem, dbv)
    IN IF g.raised
       THEN VOut(<<ErrorEntry(r, "error", RaisedMessage(eng, r))>>,
                 <<Seen(r, 0, "raised", "notevaluated", FALSE, Null)>>, FALSE)
       ELSE IF ~Truthy(g.v)
       THEN VOut(<<>>, <<Seen(r, 0, "false", "notevaluated", FALSE, Null)>>, FALSE)
       ELSE IF val.raised
       THEN VOut(<<ErrorEntry(r, "error", RaisedMessage(eng, r))>>,
                 <<Seen(r, 0, GuardTag(r), "raised", FALSE, Null)>>, FALSE)
       ELSE IF ~Truthy(val.v)
       THEN VOut(<<ErrorEntry(r, "failed", FailedMessage(eng, r))>>,
                 <<Seen(r, 0, GuardTag(r), "failed", FALSE, val.v)>>, FALSE)
       ELSE VOut(<<>>, <<Seen(r, 0, GuardTag(r), "passed", FALSE, val.v)>>, FALSE)

\* DatabaseBusinessValidationEngine.validate, one rule: the guard is evaluated
\* before the try block.
ValidateRuleDb(r, d, dbv) ==
    LET g == GuardOf("db", r, d, NoItem, dbv) IN
    IF g.raised
    THEN VOut(<<>>, <<Seen(r, 0, "raised", "notevaluated", FALSE, Null)>>, TRUE)
    ELSE ValidateRuleCel("db", r, d, dbv)

ValidateRule(eng, r, d, dbv) ==
    IF ~r.active
    THEN VOut(<<>>, <<Seen(r, 0, "inactive", "notevaluated", FALSE, Null)>>, FALSE)
    ELSE IF eng = "db" THEN ValidateRuleDb(r, d, dbv)
    ELSE ValidateRuleCel(eng, r, d, dbv)

RECURSIVE Messages(_)
Messages(errs) ==
    IF errs = <<>> THEN <<>> ELSE <<Head(errs).error_message>> \o Messages(Tail(errs))

\* A verdict that counts failed rules only, not rules that raised.
ValidateResultFailedOnly(errs) ==
    [is_valid |-> \A k \in 1..Len(errs) : errs[k].kind # "failed",
     errors |-> Messages(errs)]

\* The pair validate returns.
ValidateResult(errs) == [is_valid |-> Len(errs) = 0, errors |-> Messages(errs)]

InitValidation ==
    /\ component = "validation"
    /\ engine \in ValidationEngines
    /\ db \in Dbs
    /\ doc \in Docs
    /\ docBefore = doc
    /\ rules = <<>>
    /\ loaded = <<>>
    /\ execution_log = <<>>
    /\ trace = <<>>
    /\ visited = <<>>
    /\ ci = 0
    /\ pc = "new"
    /\ runNo = 0
    /\ validation_errors = <<>>
    /\ vresult = [is_valid |-> TRUE, errors |-> <<>>]
    /\ service = "none"
    /\ results = <<>>
    /\ MergeIdle
    /\ QueryIdle
    /\ OthersIdle

\* load_rules(rules) of the validation engine.
LoadValidationRules ==
    /\ component = "validation"
    /\ pc = "new"
    /\ \E rs \in RuleLists(ValidationPool) :
          /\ rules' = SortedByPriority(rs)
          /\ loaded' = rs
    /\ pc' = "idle"
    /\ UNCHANGED <<component, engine, db, doc, docBefore, execution_log, trace, visited,
                   ci, runNo, validation_errors, vresult, service, results>>
    /\ UNCHANGED <<mergeVars, queryVars, otherVars>>

\* validate(domain) is entered: errors and log are reset.
StartValidate ==
    /\ component = "validation"
    /\ pc = "idle"
    /\ validation_errors' = <<>>
    /\ execution_log' = <<>>
    /\ trace' = <<>>
    /\ visited' = <<>>
    /\ ci' = 1
    /\ pc' = "running"
    /\ runNo' = runNo + 1
    /\ UNCHANGED <<component, engine, db, rules, loaded, doc, docBefore, vresult,
                   service, results>>
    /\ UNCHANGED <<mergeVars, queryVars, otherVars>>

\* One iteration of `for rule in self.rules`.
ValidateStep ==
    /\ component = "validation"
    /\ pc = "running"
    /\ ci <= Len(rules)
    /\ LET out == ValidateRule(engine, rules[ci], doc, db) IN
          /\ validation_errors' = validation_errors \o out.errs
          /\ trace' = trace \o out.trs
          /\ visited' = Append(visited, rules[ci].id)
          /\ pc' = IF out.raised THEN "raised" ELSE "running"
          /\ ci' = ci + 1
    /\ UNCHANGED <<component, engine, db, rules, loaded, doc, docBefore, execution_log,
                   runNo, vresult, service, results>>
    /\ UNCHANGED <<mergeVars, queryVars, otherVars>>

\* `return is_valid, error_messages`.
FinishValidate ==
    /\ component = "validation"
    /\ pc = "running"
    /\ ci > Len(rules)
    /\ vresult' = ValidateResult(validation_errors)
    /\ pc' = "done"
    /\ UNCHANGED <<component, engine, db, rules, loaded, doc, docBefore, execution_log,
                   trace, visited, ci, runNo, validation_errors, service, results>>
    /\ UNCHANGED <<mergeVars, queryVars, otherVars>>

\* The validation engines InvoiceProcessingService constructs (cel_engine.py).
ServiceEngines == {"cel_engine", "cel_engine_async"}

\* The entry process_invoices appends to result["results"] for one invoice.
ResultItem(d, res) ==
    [success |-> res.is_valid, has_data |-> TRUE, data |-> d,
     has_errors |-> ~res.is_valid,
     errors |-> IF res.is_valid THEN <<>> ELSE res.errors]

\* The entry _batch_validation_and_conversion appends to final_results.
BatchResultItem(d, res) ==
    IF res.is_valid
    THEN [success |-> TRUE, has_data |-> TRUE, data |-> d,
          has_errors |-> FALSE, errors |-> <<>>]
    ELSE [success |-> FALSE, has_data |-> FALSE, data |-> Null,
          has_errors |-> TRUE, errors |-> res.errors]

\* InvoiceProcessingService.process_invoices, the validation loop body after
\* the engine returned.
ProcessInvoicesResult ==
    /\ component = "validation"
    /\ engine \in ServiceEngines
    /\ pc = "done"
    /\ service' = "unified"
    /\ results' = Append(results, ResultItem(doc, vresult))
    /\ pc' = "reported"
    /\ UNCHANGED <<component, engine, db, rules, loaded, doc, docBefore, execution_log,
                   trace, visited, ci, runNo, validation_errors, vresult>>
    /\ UNCHANGED <<mergeVars, queryVars, otherVars>>

\* BatchInvoiceProcessingService._batch_validation_and_conversion, the loop
\* body after the engine returned.
BatchValidationResult ==
    /\ component = "validation"
    /\ engine \in ServiceEngines
    /\ pc = "done"
    /\ service' = "batch"
    /\ results' = Append(results, BatchResultItem(doc, vresult))
    /\ pc' = "reported"
    /\ UNCHANGED <<component, engine, db, rules, loaded, doc, docBefore, execution_log,
                   trace, visited, ci, runNo, validation_errors, vresult>>
    /\ UNCHANGED <<mergeVars, queryVars, otherVars>>

NextValidation ==
    \/ LoadValidationRules
    \/ StartValidate
    \/ ValidateStep
    \/ FinishValidate
    \/ ProcessInvoicesResult
    \/ BatchValidationResult

(***************************************************************************)
(* The merge/split engine (invoice_merge_engine.py).  Amounts and          *)
(* quantities are integers; a tax rate is a whole percentage.              *)
(***************************************************************************)
Line(id, name, rate, category, quantity, amount, tax) ==
    [item_id |-> id, name |-> name, tax_rate |-> rate, tax_category |-> category,
     quantity |-> quantity, amount |-> amount, tax_amount |-> tax,
     unit_price |-> IF quantity > 0 THEN amount \div quantity ELSE 0,
     description |-> "line"]

\* `x or ""` on an optional string.
OrEmpty(v) == IF v.t = "str" THEN v.s ELSE ""

\* `x or 0` on an optional amount.
OrZero(v) == IF v.t = "num" THEN v.n ELSE 0

\* str(item.tax_rate or ""): a rate of zero is falsy.
RateText(v) == IF v.t = "num" /\ v.n # 0 THEN ToString(v.n) ELSE ""

RECURSIVE SumAmount(_)
SumAmount(items) ==
    IF items = <<>> THEN 0 ELSE Head(items).amount + SumAmount(Tail(items))

RECURSIVE SumTax(_)
SumTax(items) ==
    IF items = <<>> THEN 0 ELSE OrZero(Head(items).tax_amount) + SumTax(Tail(items))

RECURSIVE SumQuantity(_)
SumQuantity(items) ==
    IF items = <<>> THEN 0 ELSE Head(items).quantity + SumQuantity(Tail(items))

\* The keys of a dict filled in the order of keys, in insertion order.
RECURSIVE DictKeys(_)
DictKeys(keys) ==
    IF keys = <<>> THEN <<>>
    ELSE LET front == DictKeys(SubSeq(keys, 1, Len(keys) - 1))
             k == keys[Len(keys)]
         IN IF \E j \in 1..Len(front) : front[j] = k THEN front ELSE Append(front, k)

\* The list a dict of lists holds under key k: the elements of s whose key is k.
RECURSIVE DictGroup(_, _, _)
DictGroup(s, keys, k) ==
    IF s = <<>> THEN <<>>
    ELSE IF Head(keys) = k
         THEN <<Head(s)>> \o DictGroup(Tail(s), Tail(keys), k)
         ELSE DictGroup(Tail(s), Tail(keys), k)

\* merge_key = f"{tax_rate}_{name}_{tax_category}".
MergeKey(item) ==
    RateText(item.tax_rate) \o "_" \o OrEmpty(item.name) \o "_" \o OrEmpty(item.tax_category)

\* A merged line that stands for the first line of its group only.
MergedItemOfFirstLine(group) == [group[1] EXCEPT !.description = "merged"]

\* The line that replaces an item group of more than one line.
MergedItem(group) ==
    LET total_quantity == SumQuantity(group)
        total_amount == SumAmount(group)
    IN [group[1] EXCEPT !.quantity = total_quantity,
                        !.amount = total_amount,
                        !.tax_amount = Num(SumTax(group)),
                        !.unit_price = IF total_quantity > 0
                                       THEN total_amount \div total_quantity ELSE 0,
                        !.description = "merged"]

\* _merge_invoice_items.
MergeInvoiceItems(items) ==
    LET keys == [i \in 1..Len(items) |-> MergeKey(items[i])]
        order == DictKeys(keys)
    IN [g \in 1..Len(order) |->
          LET group == DictGroup(items, keys, order[g]) IN
          IF Len(group) = 1 THEN group[1] ELSE MergedItem(group)]

RECURSIVE AllItems(_)
AllItems(invs) == IF invs = <<>> THEN <<>> ELSE Head(invs).items \o AllItems(Tail(invs))

\* A merge that keeps the amounts of the first invoice of the group.
MergeInvoiceGroupKeepingAmounts(invs) ==
    IF Len(invs) = 1 THEN invs[1]
    ELSE [invs[1] EXCEPT !.items = MergeInvoiceItems(AllItems(invs)),
                         !.invoice_number = "MERGED_" \o invs[1].invoice_number]

\* _merge_invoice_group.
MergeInvoiceGroup(invs) ==
    IF Len(invs) = 1 THEN invs[1]
    ELSE LET merged_items == MergeInvoiceItems(AllItems(invs))
             total_amount == SumAmount(merged_items)
             total_tax_amount == SumTax(merged_items)
         IN [invs[1] EXCEPT !.items = merged_items,
                            !.total_amount = total_amount,
                            !.tax_amount = Num(total_tax_amount),
                            !.net_amount = Num(total_amount - total_tax_amount),
                            !.invoice_number = "MERGED_" \o invs[1].invoice_number]

\* group_key = f"{customer_tax_no}_{supplier_tax_no}".
GroupKey(inv) == OrEmpty(inv.customer_tax_no) \o "_" \o OrEmpty(inv.supplier_tax_no)

\* _merge_by_tax_party.
MergeByTaxParty(invs) ==
    LET keys == [i \in 1..Len(invs) |-> GroupKey(invs[i])]
        order == DictKeys(keys)
    IN [g \in 1..Len(order) |->
          LET group == DictGroup(invs, keys, order[g]) IN
          IF Len(group) = 1 THEN group[1] ELSE MergeInvoiceGroup(group)]

\* tax_category = item.tax_category or "未分类".
Uncategorized == "UNCATEGORIZED"
CategoryKey(item) ==
    IF OrEmpty(item.tax_category) = "" THEN Uncategorized ELSE item.tax_category.s

\* A split invoice that keeps the amounts of the invoice it was cut from.
CreateSplitInvoiceKeepingAmounts(inv, items, category) ==
    [inv EXCEPT !.items = items,
                !.invoice_number = inv.invoice_number \o "_" \o category]

\* _create_split_invoice.
CreateSplitInvoice(inv, items, category) ==
    [inv EXCEPT !.items = items,
                !.total_amount = SumAmount(items),
                !.tax_amount = Num(SumTax(items)),
                !.net_amount = Num(SumAmount(items) - SumTax(items)),
                !.invoice_number = inv.invoice_number \o "_" \o category]

\* A split without the early return for a single category.
SplitAlways(inv) ==
    LET keys == [i \in 1..Len(inv.items) |-> CategoryKey(inv.items[i])]
        order == DictKeys(keys)
    IN [g \in 1..Len(order) |->
          CreateSplitInvoice(inv, DictGroup(inv.items, keys, order[g]), order[g])]

\* A split that hands every line of the document to each of its parts.
SplitKeepingAllLines(inv) ==
    LET keys == [i \in 1..Len(inv.items) |-> CategoryKey(inv.items[i])]
        order == DictKeys(keys)
    IN IF Len(order) <= 1 THEN <<inv>>
       ELSE [g \in 1..Len(order) |-> CreateSplitInvoice(inv, inv.items, order[g])]

\* _split_by_tax_category.
SplitByTaxCategory(inv) ==
    LET keys == [i \in 1..Len(inv.items) |-> CategoryKey(inv.items[i])]
        order == DictKeys(keys)
    IN IF Len(order) <= 1 THEN <<inv>>
       ELSE [g \in 1..Len(order) |->
               CreateSplitInvoice(inv, DictGroup(inv.items, keys, order[g]), order[g])]

RECURSIVE SplitAll(_)
SplitAll(invs) ==
    IF invs = <<>> THEN <<>> ELSE SplitByTaxCategory(Head(invs)) \o SplitAll(Tail(invs))

\* _execute_split.  The copy under backend/ calls self._split_by_tax_category,
\* which that class does not define: the first invoice raises AttributeError.
ExecuteSplit(eng, invs) ==
    IF eng = "backend" /\ invs # <<>>
    THEN [raised |-> TRUE, invoices |-> <<>>]
    ELSE [raised |-> FALSE, invoices |-> SplitAll(invs)]

(***************************************************************************)
(* Inputs of the merge engine.                                             *)
(***************************************************************************)
Invoice(number, customer, supplier, items, extra) ==
    [invoice_number |-> number, customer_tax_no |-> customer, supplier_tax_no |-> supplier,
     items |-> items,
     total_amount |-> SumAmount(items) + extra,
     tax_amount |-> Num(SumTax(items)),
     net_amount |-> Num(SumAmount(items) + extra - SumTax(items))]

RoomA == Line("1", Str("Room"), Num(13), Null, 10, 1000, Num(130))
RoomB == Line("2", Str("Room"), Num(13), Null, 5, 500, Num(65))
MealB == Line("3", Str("Meal"), Num(6), Null, 3, 150, Num(9))
TaxiVat == Line("4", Str("Taxi"), Num(6), Str("VAT"), 1, 100, Null)
TaxiSimple == Line("5", Str("Taxi"), Num(6), Str("SIMPLE"), 2, 200, Num(12))
BookZeroRate == Line("6", Str("Book"), Num(0), Str("VAT"), 1, 100, Num(0))
BookNoRate == Line("7", Str("Book"), Null, Str("VAT"), 1, 100, Null)

LineLists ==
    {<<>>, <<RoomA>>, <<RoomB, MealB>>, <<TaxiVat, TaxiSimple>>, <<TaxiVat>>,
     <<MealB, TaxiVat>>, <<BookZeroRate>>, <<BookNoRate>>}

\* (customer tax id, supplier tax id): a missing and an empty customer id, and
\* two pairs of present ids that contain the separator of the group key.
TaxParties ==
    {<<Null, Str("C")>>, <<Str(""), Str("C")>>,
     <<Str("A_B"), Str("C")>>, <<Str("A"), Str("B_C")>>}

\* What the stated total of an input document adds to the sum of its lines.
TotalExtras == {0, 7}

\* The invoices of a batch: every tax-party pair with every list of lines; the
\* stated total is the sum of the lines, or lies above it for two of the lists.
Invoices ==
    {Invoice("INV", p[1], p[2], ls, IF ls \in {<<RoomA>>, <<RoomB, MealB>>} THEN x ELSE 0) :
        p \in TaxParties, ls \in LineLists, x \in TotalExtras}

\* The batches of n invoices, numbered in order.
Batches(n) ==
    {[i \in 1..n |-> [c[i] EXCEPT !.invoice_number = "INV" \o ToString(i)]] :
        c \in [1..n -> Invoices]}

MergeEngines == {"backend_python", "backend"}

\* No rule engine in this behaviour.
RulesIdle ==
    /\ engine = "none" /\ db = <<>>
    /\ rules = <<>> /\ loaded = <<>>
    /\ doc = Doc(Null, Num(0), <<>>) /\ docBefore = doc
    /\ execution_log = <<>> /\ trace = <<>> /\ visited = <<>>
    /\ ci = 0 /\ pc = "none" /\ runNo = 0
    /\ validation_errors = <<>> /\ vresult = [is_valid |-> TRUE, errors |-> <<>>]
    /\ service = "none" /\ results = <<>>

InitMerge ==
    /\ component = "merge"
    /\ RulesIdle
    /\ QueryIdle
    /\ OthersIdle
    /\ mengine \in MergeEngines
    /\ \E n \in 0..MaxInvoices : batch \in Batches(n)
    /\ mop = "none"
    /\ mpc = "ready"
    /\ merged = <<>>
    /\ output = <<>>
    /\ again = <<>>

\* merge(invoices, strategy): _execute_merge with the tax-party strategy.
Merge ==
    /\ mpc = "ready"
    /\ mop' = "merge"
    /\ output' = MergeByTaxParty(batch)
    /\ mpc' = "returned"
    /\ UNCHANGED <<mengine, batch, merged, again>>
    /\ UNCHANGED <<ruleVars, queryVars, otherVars>>

\* split(invoices): _execute_split.
Split ==
    /\ mpc = "ready"
    /\ mop' = "split"
    /\ LET r == ExecuteSplit(mengine, batch) IN
          /\ output' = r.invoices
          /\ mpc' = IF r.raised THEN "raised" ELSE "returned"
    /\ UNCHANGED <<mengine, batch, merged, again>>
    /\ UNCHANGED <<ruleVars, queryVars, otherVars>>

\* split called on the list a split returned.
SplitAgain ==
    /\ mpc = "returned"
    /\ mop = "split"
    /\ LET r == ExecuteSplit(mengine, output) IN
          /\ again' = r.invoices
          /\ mpc' = IF r.raised THEN "raised" ELSE "resplit"
    /\ UNCHANGED <<mengine, batch, mop, merged, output>>
    /\ UNCHANGED <<ruleVars, queryVars, otherVars>>

\* merge_and_split, first step: merged_invoices = self._execute_merge(...).
MergeAndSplitMerge ==
    /\ mpc = "ready"
    /\ mop' = "merge_and_split"
    /\ merged' = MergeByTaxParty(batch)
    /\ mpc' = "merged"
    /\ UNCHANGED <<mengine, batch, output, again>>
    /\ UNCHANGED <<ruleVars, queryVars, otherVars>>

\* merge_and_split, second step: processed_invoices = self._execute_split(merged_invoices).
MergeAndSplitSplit ==
    /\ mpc = "merged"
    /\ LET r == ExecuteSplit(mengine, merged) IN
          /\ output' = r.invoices
          /\ mpc' = IF r.raised THEN "raised" ELSE "returned"
    /\ UNCHANGED <<mengine, batch, mop, merged, again>>
    /\ UNCHANGED <<ruleVars, queryVars, otherVars>>

NextMerge == Merge \/ Split \/ SplitAgain \/ MergeAndSplitMerge \/ MergeAndSplitSplit

SpecMerge == InitMerge /\ [][NextMerge]_vars

(***************************************************************************)
(* FlexibleDatabaseQuery (flexible_db_query.py): the configured lookups    *)
(* over the reference data, and the QueryCache in front of them.           *)
(***************************************************************************)
\* A Decimal, and a value json.dumps cannot serialise (a date, a Party).
Dec(k) == [t |-> "dec", s |-> "", n |-> k]
Obj(x) == [t |-> "obj", s |-> x, n |-> 0]

\* _init_mock_data: companies by name, and the tax-rate table (rates in percent).
Companies ==
    [c \in {"Ctrip", "Kingdee"} |->
        IF c = "Ctrip"
        THEN [tax_number |-> "91440101234567890A", category |-> "TRAVEL_SERVICE"]
        ELSE [tax_number |-> "91440101987654321B", category |-> "SOFTWARE"]]

TaxRate(category, min_amount, max_amount, rate) ==
    [category |-> category, min_amount |-> min_amount, max_amount |-> max_amount,
     rate |-> rate]

TaxRates ==
    <<TaxRate("TRAVEL_SERVICE", 0, 10000, 3), TaxRate("TRAVEL_SERVICE", 10001, 999999, 6),
      TaxRate("SOFTWARE", 0, 999999, 6), TaxRate("GENERAL", 0, 999999, 13)>>

\* self.config["queries"]: the template and parameters of each configured query.
Queries ==
    [q \in {"get_tax_number_by_name", "get_company_category_by_name",
            "get_tax_rate_by_category_and_amount"} |->
        CASE q = "get_tax_number_by_name" ->
               [template |-> "single_field_lookup", table |-> "companies",
                return_field |-> "tax_number"]
          [] q = "get_company_category_by_name" ->
               [template |-> "single_field_lookup", table |-> "companies",
                return_field |-> "category"]
          [] OTHER ->
               [template |-> "multi_condition_lookup", table |-> "tax_rates",
                return_field |-> "rate"]]

\* self.max_size of QueryCache and the default of template.get("cache_ttl", 300).
max_size == 1000
DefaultTtl == 300

\* float(param): defined for numbers, raises for None and for other objects.
HasFloat(p) == p.t \in {"num", "dec"}

\* The first row of tax_rates that matches, as the for loop finds it.
RECURSIVE FirstRate(_, _, _)
FirstRate(rows, category, amount) ==
    IF rows = <<>> THEN Null
    ELSE IF Head(rows).category = category
            /\ Head(rows).min_amount <= amount /\ amount <= Head(rows).max_amount
         THEN Num(Head(rows).rate)
         ELSE FirstRate(Tail(rows), category, amount)

\* _execute_mock_query: the value found, the fallback when nothing matches; an
\* exception when the amount has no float value.
ExecuteMockQuery(query_config, params, fallback_value) ==
    CASE query_config.template = "single_field_lookup" ->
           IF query_config.table = "companies" /\ Len(params) > 0
              /\ params[1].t = "str" /\ params[1].s \in DOMAIN Companies
           THEN Ret(Str(IF query_config.return_field = "tax_number"
                        THEN Companies[params[1].s].tax_number
                        ELSE Companies[params[1].s].category))
           ELSE Ret(fallback_value)
      [] query_config.template = "multi_condition_lookup" ->
           IF query_config.table = "tax_rates" /\ Len(params) >= 2
           THEN IF ~HasFloat(params[2]) THEN Raise
                ELSE LET rate == IF params[1].t = "str"
                                 THEN FirstRate(TaxRates, params[1].s, params[2].n)
                                 ELSE Null
                     IN IF rate # Null THEN Ret(rate) ELSE Ret(fallback_value)
           ELSE Ret(fallback_value)
      [] OTHER -> Ret(fallback_value)

\* The element of serializable_params for one parameter: numbers become floats.
SerializeParam(p) == IF HasFloat(p) THEN [t |-> "float", s |-> "", n |-> p.n] ELSE p

\* _generate_cache_key: the digest of "<query_name>:<json of the parameters>",
\* taken as the pair itself; json.dumps raises TypeError for an object.
GenerateCacheKey(query_name, params) ==
    IF \E i \in 1..Len(params) : params[i].t = "obj"
    THEN [raised |-> TRUE, key |-> <<>>]
    ELSE [raised |-> FALSE,
          key |-> <<query_name, [i \in 1..Len(params) |-> SerializeParam(params[i])]>>]

CacheEntry(key, value, expiry) == [key |-> key, value |-> value, expiry |-> expiry]

Without(c, i) == SubSeq(c, 1, i - 1) \o SubSeq(c, i + 1, Len(c))

\* QueryCache.get: a live entry is moved to the end and its value returned, an
\* expired entry is deleted.
CacheGet(c, key, t) ==
    IF \E i \in 1..Len(c) : c[i].key = key
    THEN LET i == CHOOSE k \in 1..Len(c) : c[k].key = key IN
         IF t < c[i].expiry
         THEN [v |-> c[i].value, cache |-> Append(Without(c, i), c[i])]
         ELSE [v |-> Null, cache |-> Without(c, i)]
    ELSE [v |-> Null, cache |-> c]

\* QueryCache.set: the oldest entry is dropped when the cache is full, then the
\* entry is stored (in place when the key is there already).
CacheSet(c, key, value, ttl, t) ==
    LET kept == IF Len(c) >= max_size THEN Tail(c) ELSE c
        entry == CacheEntry(key, value, t + ttl)
    IN IF \E i \in 1..Len(kept) : kept[i].key = key
       THEN [i \in 1..Len(kept) |-> IF kept[i].key = key THEN entry ELSE kept[i]]
       ELSE Append(kept, entry)

QueryOut(raised, v, c) == [raised |-> raised, v |-> v, cache |-> c]

\* execute_query.
ExecuteQuery(cfg, c, t, query_name, params) ==
    IF query_name \notin DOMAIN Queries THEN QueryOut(TRUE, Null, c)
    ELSE LET query_config == Queries[query_name]
             k == GenerateCacheKey(query_name, params)
         IN IF cfg.enable_cache /\ k.raised THEN QueryOut(TRUE, Null, c)
            ELSE LET got == IF cfg.enable_cache THEN CacheGet(c, k.key, t)
                            ELSE [v |-> Null, cache |-> c]
                     result == ExecuteMockQuery(query_config, params, cfg.fallback_value)
                 IN IF got.v # Null THEN QueryOut(FALSE, got.v, got.cache)
                    ELSE IF result.raised THEN QueryOut(FALSE, cfg.fallback_value, got.cache)
                    ELSE QueryOut(FALSE, result.v,
                                  IF cfg.enable_cache
                                  THEN CacheSet(got.cache, k.key, result.v, cfg.cache_ttl, t)
                                  ELSE got.cache)

\* The lookups a rule expression can ask for: a query name and its parameters.
Lookup(query_name, params) == [query |-> query_name, params |-> params]

Lookups ==
    {Lookup("get_tax_number_by_name", <<Str("Ctrip")>>),
     Lookup("get_tax_number_by_name", <<Str("Nobody")>>),
     Lookup("get_tax_number_by_name", <<Obj("2024-01-01")>>),
     Lookup("get_company_category_by_name", <<Str("Ctrip")>>),
     Lookup("get_tax_rate_by_category_and_amount", <<Str("TRAVEL_SERVICE"), Num(10000)>>),
     Lookup("get_tax_rate_by_category_and_amount", <<Str("TRAVEL_SERVICE"), Dec(10000)>>),
     Lookup("get_tax_rate_by_category_and_amount", <<Str("TRAVEL_SERVICE"), Num(10001)>>),
     Lookup("get_tax_rate_by_category_and_amount", <<Str("TRAVEL_SERVICE"), Null>>),
     Lookup("get_email_by_name", <<Str("Ctrip")>>)}

\* The configurations: cache on or off, the ttl of the templates, and the
\* fallback_value of the queries.
Configs ==
    [enable_cache : BOOLEAN, cache_ttl : {1, DefaultTtl},
     fallback_value : {Null, Str("UNKNOWN")}]

Call(l, out, plain) ==
    [query |-> l.query, params |-> l.params,
     out |-> [raised |-> out.raised, v |-> out.v],
     plain |-> [raised |-> plain.raised, v |-> plain.v]]

\* get_query_handler(): the handler with its configuration and an empty cache.
InitQuery ==
    /\ component = "query"
    /\ RulesIdle
    /\ MergeIdle
    /\ OthersIdle
    /\ config \in Configs
    /\ cache = <<>>
    /\ now = 0
    /\ calls = <<>>

\* db_query(query_name, *args) on the handler; the same call is also given to
\* a handler that differs in enable_cache = False only, and both answers are
\* recorded.
Query ==
    /\ Len(calls) < MaxLookups
    /\ \E l \in Lookups :
          LET out == ExecuteQuery(config, cache, now, l.query, l.params)
              plain == ExecuteQuery([config EXCEPT !.enable_cache = FALSE], <<>>, now,
                                    l.query, l.params)
          IN /\ cache' = out.cache
             /\ calls' = Append(calls, Call(l, out, plain))
    /\ UNCHANGED <<config, now>>
    /\ UNCHANGED <<ruleVars, mergeVars, otherVars>>

\* Time passes between two lookups.
Tick ==
    /\ now < MaxClock
    /\ now' = now + 1
    /\ UNCHANGED <<config, cache, calls>>
    /\ UNCHANGED <<ruleVars, mergeVars, otherVars>>

NextQuery == Query \/ Tick

SpecQuery == InitQuery /\ [][NextQuery]_vars

(***************************************************************************)
(* The rule file and the objects that load it: the engines read            *)
(* config/rules.yaml in their constructors, InvoiceProcessingService reads *)
(* it again in _load_rules, and reload_rules of the rules management       *)
(* service makes the global service of main.py read it once more.          *)
(***************************************************************************)
\* One entry of the rule file: a mapping that FieldCompletionRule(**rule_data)
\* or FieldValidationRule(**rule_data) accepts, or one that lacks a required
\* key.
RuleData(id, priority, shape) == [id |-> id, priority |-> priority, shape |-> shape]

RuleFile(completion, validation) ==
    [field_completion_rules |-> completion, field_validation_rules |-> validation]

RuleFiles ==
    {RuleFile(<<RuleData(1, 90, "ok"), RuleData(2, 100, "ok")>>, <<RuleData(11, 100, "ok")>>),
     RuleFile(<<RuleData(3, 100, "ok")>>, <<RuleData(12, 100, "ok"), RuleData(11, 100, "ok")>>),
     RuleFile(<<RuleData(1, 90, "ok"), RuleData(4, 100, "malformed")>>,
              <<RuleData(12, 100, "ok")>>),
     RuleFile(<<RuleData(3, 100, "ok")>>,
              <<RuleData(11, 100, "ok"), RuleData(14, 100, "malformed")>>)}

\* The entries that the model constructor rejects.
MalformedIn(data) == {i \in 1..Len(data) : data[i].shape = "malformed"}
HasMalformed(f) ==
    MalformedIn(f.field_completion_rules) # {} \/ MalformedIn(f.field_validation_rules) # {}

\* The id of the first entry the loading loops would reject, 0 when none.
OffendingId(f) ==
    LET c == f.field_completion_rules
        v == f.field_validation_rules
    IN IF MalformedIn(c) # {} THEN c[CHOOSE i \in MalformedIn(c) : \A j \in MalformedIn(c) : i <= j].id
       ELSE IF MalformedIn(v) # {}
       THEN v[CHOOSE i \in MalformedIn(v) : \A j \in MalformedIn(v) : i <= j].id
       ELSE 0

\* _load_rules_from_config of an engine: the whole body is inside
\* try/except Exception, so a rejected entry leaves self.rules as it was.
LoadRulesFromConfig(data, current) ==
    IF MalformedIn(data) # {} THEN current ELSE SortedByPriority(data)

\* InvoiceProcessingService._load_rules on a service whose engines hold the
\* lists completion and validation: the completion rules are built and
\* loaded, then the validation rules; the model constructor raises at the
\* first rejected entry and nothing catches it.
ServiceLoadRules(f, completion, validation) ==
    IF MalformedIn(f.field_completion_rules) # {}
    THEN [raised |-> TRUE, completion |-> completion, validation |-> validation]
    ELSE IF MalformedIn(f.field_validation_rules) # {}
    THEN [raised |-> TRUE, completion |-> SortedByPriority(f.field_completion_rules),
          validation |-> validation]
    ELSE [raised |-> FALSE, completion |-> SortedByPriority(f.field_completion_rules),
          validation |-> SortedByPriority(f.field_validation_rules)]

\* InvoiceProcessingService.__init__: the two engine constructors, then
\* _load_rules.
ConstructService(f) ==
    ServiceLoadRules(f, LoadRulesFromConfig(f.field_completion_rules, <<>>),
                        LoadRulesFromConfig(f.field_validation_rules, <<>>))

ServiceObject(f, built, at) ==
    [state |-> IF built.raised THEN "failed" ELSE "up",
     completion |-> built.completion, validation |-> built.validation,
     start_completion |-> built.completion, start_validation |-> built.validation,
     file_at_start |-> f, loads_at_start |-> at,
     pc |-> IF built.raised THEN "none" ELSE "created",
     used_completion |-> <<>>, used_validation |-> <<>>]

\* One load of the rule file: who loaded, what the file held, whether the
\* caller saw an exception, the rule id the exception text shows (0 when it
\* shows none), the rule lists the engines hold afterwards, and the runs
\* that were in progress.
LoadRecord(kind, f, raised, named, completion, validation, in_progress) ==
    [kind |-> kind, file |-> f, raised |-> raised, named |-> named,
     completion |-> completion, validation |-> validation, in_progress |-> in_progress]

\* What the text of the validation error of the model constructor shows of
\* the rejected rule: the model class and the missing field always, the
\* input mapping (and so the id) with some versions of the library only.
NamedByError(f) == {0, OffendingId(f)}

InProgress(svcs) == {i \in 2..Len(svcs) : svcs[i].pc \in {"created", "completed"}}

\* A reload that reaches the engines of every service object.
ReloadedEverywhere(svcs, f) ==
    [i \in 1..Len(svcs) |->
        IF svcs[i].state = "up"
        THEN LET r == ServiceLoadRules(f, svcs[i].completion, svcs[i].validation)
             IN [svcs[i] EXCEPT !.completion = r.completion, !.validation = r.validation]
        ELSE svcs[i]]

\* reload_rules: `from ..main import invoice_service; invoice_service._load_rules()`
\* reaches the global service only.
Reloaded(svcs, f) ==
    LET r == ServiceLoadRules(f, svcs[1].completion, svcs[1].validation)
    IN [svcs EXCEPT ![1].completion = r.completion, ![1].validation = r.validation]

\* The application starts on a rule file that loads: main.py constructs the
\* global service at import.
InitStore ==
    /\ component = "rule_store"
    /\ RulesIdle /\ MergeIdle /\ QueryIdle /\ BatchIdle
    /\ rulesFile \in {f \in RuleFiles : ~HasMalformed(f)}
    /\ services = <<ServiceObject(rulesFile, ConstructService(rulesFile), 0)>>
    /\ loads = <<>>

\* config/rules.yaml is edited.
ConfigEdited ==
    /\ rulesFile' \in RuleFiles \ {rulesFile}
    /\ UNCHANGED <<services, loads>>
    /\ UNCHANGED <<ruleVars, mergeVars, queryVars, batchVars>>

\* RulesManagementService.reload_rules: the file is read and its structure
\* checked, the global service loads it, an exception of that load is logged
\* as a warning, and the reload reports success.
ReloadRules ==
    /\ Len(loads) < MaxLoads
    /\ services' = Reloaded(services, rulesFile)
    /\ loads' = Append(loads, LoadRecord("reload", rulesFile, FALSE, 0,
                                         services'[1].completion, services'[1].validation,
                                         InProgress(services)))
    /\ UNCHANGED rulesFile
    /\ UNCHANGED <<ruleVars, mergeVars, queryVars, batchVars>>

\* A request constructs its own InvoiceProcessingService(db); when the
\* constructor raises, the request ends with that exception.
NewService ==
    /\ Len(services) <= MaxRequests
    /\ Len(loads) < MaxLoads
    /\ LET built == ConstructService(rulesFile) IN
       \E named \in (IF built.raised THEN NamedByError(rulesFile) ELSE {0}) :
          /\ services' = Append(services, ServiceObject(rulesFile, built, Len(loads) + 1))
          /\ loads' = Append(loads, LoadRecord("service", rulesFile, built.raised, named,
                                               built.completion, built.validation,
                                               InProgress(services)))
    /\ UNCHANGED rulesFile
    /\ UNCHANGED <<ruleVars, mergeVars, queryVars, batchVars>>

\* CELFieldCompletionEngine() constructed on its own.
NewEngine ==
    /\ Len(loads) < MaxLoads
    /\ loads' = Append(loads, LoadRecord("engine", rulesFile, FALSE, 0,
                                         LoadRulesFromConfig(rulesFile.field_completion_rules, <<>>),
                                         <<>>, InProgress(services)))
    /\ UNCHANGED <<rulesFile, services>>
    /\ UNCHANGED <<ruleVars, mergeVars, queryVars, batchVars>>

\* process_invoices of a request, the completion stage: the loop of the
\* completion engine goes over self.rules.
RunCompletion ==
    /\ \E i \in 2..Len(services) :
          /\ services[i].pc = "created"
          /\ services' = [services EXCEPT ![i].pc = "completed",
                                          ![i].used_completion = services[i].completion]
    /\ UNCHANGED <<rulesFile, loads>>
    /\ UNCHANGED <<ruleVars, mergeVars, queryVars, batchVars>>

\* process_invoices of a request, the validation stage.
RunValidation ==
    /\ \E i \in 2..Len(services) :
          /\ services[i].pc = "completed"
          /\ services' = [services EXCEPT ![i].pc = "done",
                                          ![i].used_validation = services[i].validation]
    /\ UNCHANGED <<rulesFile, loads>>
    /\ UNCHANGED <<ruleVars, mergeVars, queryVars, batchVars>>

NextStore ==
    ConfigEdited \/ ReloadRules \/ NewService \/ NewEngine \/ RunCompletion \/ RunValidation

SpecStore == InitStore /\ [][NextStore]_vars

(***************************************************************************)
(* Batch processing: BatchInvoiceProcessingService.process_batch_invoices  *)
(* with a database session.  _batch_completion starts one coroutine per    *)
(* file and awaits asyncio.gather; all coroutines call complete_async of   *)
(* the one completion engine of self.invoice_service.  A coroutine holds   *)
(* the event loop until it awaits the reference-data store.                *)
(***************************************************************************)
\* "query_timeout" of the execution strategy, in milliseconds.
query_timeout == 1000

\* An uploaded file: one that parses to a document, or one that does not.
FileInput(ok, d) == [ok |-> ok, doc |-> d]

BatchDocs == {Doc(Null, Num(100), <<Item(Null)>>), Doc(Str("T0"), Num(100), <<>>)}

FileInputs ==
    {FileInput(TRUE, d) : d \in BatchDocs} \cup {FileInput(FALSE, Doc(Null, Num(0), <<>>))}

\* The batches of n files.
FileBatches(n) == [1..n -> FileInputs]

\* The rules of the shared engine: two lookups, a literal and a line rule.
BatchPool == <<CompletionPool[1], CompletionPool[2], CompletionPool[3], CompletionPool[8]>>

\* The coroutine _process_single_file_completion(file, source_system).
Task(input) ==
    [pc |-> "new", ok |-> input.ok, doc |-> input.doc, ri |-> 0, log |-> <<>>, since |-> 0]

\* _replace_generic_db_query awaits DatabaseQueryHelper for the query names
\* it knows; any other name is replaced by null without a lookup.
AwaitsStore(e) ==
    e.op = "dbq" /\ e.q \in {"get_tax_number_by_name", "get_company_category_by_name"}

\* The rule makes the coroutine await the store: it is active, its guard
\* holds and its expression is a lookup.
NeedsLookup(r, d, dbv) ==
    /\ r.active
    /\ ~IsItemsTarget(r.target_field)
    /\ AwaitsStore(r.rule_expression)
    /\ LET g == GuardOf("cel_async", r, d, NoItem, dbv) IN ~g.raised /\ Truthy(g.v)

\* complete_async on a document that no other coroutine runs next to.
RECURSIVE CompleteAsync(_, _, _, _)
CompleteAsync(rs, n, d, dbv) ==
    IF n = 0 THEN Out(d, <<>>, <<>>, FALSE)
    ELSE LET before == CompleteAsync(rs, n - 1, d, dbv)
             this == CompleteRule("cel_async", rs[n], before.d, dbv)
         IN Out(this.d, before.logs \o this.logs, before.trs \o this.trs, FALSE)

\* A gather that returns as soon as one coroutine has ended.
GatheredFirstCompleted(ts) ==
    ts = <<>> \/ \E i \in 1..Len(ts) : ts[i].pc \in {"done", "failed"}

\* asyncio.gather(*tasks, return_exceptions=True) returns when every
\* coroutine has returned.
Gathered(ts) == \A i \in 1..Len(ts) : ts[i].pc \in {"done", "failed"}

\* successful_invoices: the documents of the coroutines that returned
\* success, in the order of the files.
RECURSIVE SuccessfulInvoices(_)
SuccessfulInvoices(ts) ==
    IF ts = <<>> THEN <<>>
    ELSE IF Head(ts).pc = "done" THEN <<Head(ts).doc>> \o SuccessfulInvoices(Tail(ts))
    ELSE SuccessfulInvoices(Tail(ts))

batchFixed == <<component, engine, db, rules, loaded, doc, docBefore, trace, visited, ci, pc,
                runNo, validation_errors, vresult, service, results, files>>

InitBatch ==
    /\ component = "batch"
    /\ engine = "cel_async"
    /\ db \in Dbs
    /\ \E rs \in RuleLists(BatchPool) : rules = SortedByPriority(rs) /\ loaded = rs
    /\ doc = Doc(Null, Num(0), <<>>) /\ docBefore = doc
    /\ execution_log = <<>> /\ trace = <<>> /\ visited = <<>>
    /\ ci = 0 /\ pc = "none" /\ runNo = 0
    /\ validation_errors = <<>> /\ vresult = [is_valid |-> TRUE, errors |-> <<>>]
    /\ service = "batch" /\ results = <<>>
    /\ MergeIdle /\ QueryIdle /\ StoreIdle
    /\ \E n \in 0..MaxFiles : files \in FileBatches(n)
    /\ tasks = [i \in 1..Len(files) |-> Task(files[i])]
    /\ running = 0
    /\ phase = "completion"
    /\ grouped = <<>>
    /\ clock = 0

\* A coroutine is run for the first time: the file is read and parsed; a
\* file that does not parse ends the coroutine with a failure entry.  On a
\* document complete_async is entered, which empties the log of the engine.
TaskStart ==
    /\ phase = "completion" /\ running = 0
    /\ \E i \in 1..Len(tasks) :
          /\ tasks[i].pc = "new"
          /\ IF tasks[i].ok
             THEN /\ tasks' = [tasks EXCEPT ![i].pc = "ready", ![i].ri = 1]
                  /\ running' = i
                  /\ execution_log' = <<>>
             ELSE /\ tasks' = [tasks EXCEPT ![i].pc = "failed"]
                  /\ UNCHANGED <<running, execution_log>>
    /\ UNCHANGED <<phase, grouped, clock>>
    /\ UNCHANGED <<batchFixed, mergeVars, queryVars, storeVars>>

\* The coroutine that holds the event loop goes through one rule: a rule
\* that needs the store sends the lookup and gives up the event loop, any
\* other rule is carried out.
TaskRule ==
    /\ running # 0
    /\ LET i == running
           t == tasks[i]
       IN /\ t.pc = "ready" /\ t.ri <= Len(rules)
          /\ IF NeedsLookup(rules[t.ri], t.doc, db)
             THEN /\ tasks' = [tasks EXCEPT ![i].pc = "waiting", ![i].since = clock]
                  /\ running' = 0
                  /\ UNCHANGED execution_log
             ELSE LET out == CompleteRule("cel_async", rules[t.ri], t.doc, db) IN
                  /\ tasks' = [tasks EXCEPT ![i].doc = out.d, ![i].ri = t.ri + 1]
                  /\ execution_log' = execution_log \o out.logs
                  /\ UNCHANGED running
    /\ UNCHANGED <<phase, grouped, clock>>
    /\ UNCHANGED <<batchFixed, mergeVars, queryVars, storeVars>>

\* The store answers a lookup.
StoreAnswers ==
    /\ \E i \in 1..Len(tasks) :
          /\ tasks[i].pc = "waiting"
          /\ tasks' = [tasks EXCEPT ![i].pc = "answered"]
    /\ UNCHANGED <<running, execution_log, phase, grouped, clock>>
    /\ UNCHANGED <<batchFixed, mergeVars, queryVars, storeVars>>

\* A coroutine whose lookup was answered gets the event loop back and
\* finishes the rule: the value is written and the log entry appended.
TaskResume ==
    /\ running = 0
    /\ \E i \in 1..Len(tasks) :
          /\ tasks[i].pc = "answered"
          /\ LET out == CompleteRule("cel_async", rules[tasks[i].ri], tasks[i].doc, db) IN
                /\ tasks' = [tasks EXCEPT ![i].pc = "ready", ![i].doc = out.d,
                                          ![i].ri = tasks[i].ri + 1]
                /\ execution_log' = execution_log \o out.logs
          /\ running' = i
    /\ UNCHANGED <<phase, grouped, clock>>
    /\ UNCHANGED <<batchFixed, mergeVars, queryVars, storeVars>>

\* complete_async returns: the log of the engine at this moment is the
\* execution log of the document.
TaskReturn ==
    /\ running # 0
    /\ LET i == running IN
          /\ tasks[i].pc = "ready" /\ tasks[i].ri > Len(rules)
          /\ tasks' = [tasks EXCEPT ![i].pc = "done", ![i].log = execution_log]
    /\ running' = 0
    /\ UNCHANGED <<execution_log, phase, grouped, clock>>
    /\ UNCHANGED <<batchFixed, mergeVars, queryVars, storeVars>>

\* gather has returned: _batch_completion collects the successful documents
\* and process_batch_invoices hands them to the merge stage.
BatchMerge ==
    /\ phase = "completion" /\ running = 0
    /\ Gathered(tasks)
    /\ grouped' = SuccessfulInvoices(tasks)
    /\ phase' = "merged"
    /\ UNCHANGED <<tasks, running, execution_log, clock>>
    /\ UNCHANGED <<batchFixed, mergeVars, queryVars, storeVars>>

\* Time passes while a lookup is out.
TimePasses ==
    /\ \E i \in 1..Len(tasks) : tasks[i].pc = "waiting"
    /\ clock < MaxClock * query_timeout
    /\ clock' = clock + query_timeout
    /\ UNCHANGED <<tasks, running, execution_log, phase, grouped>>
    /\ UNCHANGED <<batchFixed, mergeVars, queryVars, storeVars>>

NextBatch ==
    TaskStart \/ TaskRule \/ StoreAnswers \/ TaskResume \/ TaskReturn \/ BatchMerge
       \/ TimePasses

SpecBatch == InitBatch /\ [][NextBatch]_vars

Init == InitCompletion \/ InitValidation
Next == NextCompletion \/ NextValidation
Spec == Init /\ [][Next]_vars

(***************************************************************************)
(* Properties of the completion engines.                                   *)
(***************************************************************************)
PositionIn(s, r) == CHOOSE i \in 1..Len(s) : s[i] = r
RuleOf(id) == CHOOSE r \in {rules[i] : i \in 1..Len(rules)} : r.id = id
EngineHas(v) == IF engine = "db" THEN HasFieldDb(v) ELSE HasField(v)
Logged(status, name) ==
    \E l \in 1..Len(execution_log) :
        execution_log[l].status = status /\ execution_log[l].rule_name = name

\* C1: once load_rules has run, self.rules holds the rules given, in
\* non-increasing priority, rules of equal priority in the order they were
\* given, and the loop of either engine visits them in exactly that order.
C1_PriorityOrder ==
    pc # "new" =>
      /\ Len(rules) = Len(loaded)
      /\ \A i \in 1..Len(loaded) : \E j \in 1..Len(rules) : rules[j] = loaded[i]
      /\ \A i, j \in 1..Len(rules) :
            i < j => /\ rules[i].priority >= rules[j].priority
                     /\ rules[i].priority = rules[j].priority =>
                           PositionIn(loaded, rules[i]) < PositionIn(loaded, rules[j])
      /\ Len(visited) <= Len(rules)
      /\ \A k \in 1..Len(visited) : visited[k] = rules[k].id

\* A finished run whose first two rules have equal priority, every rule
\* visited.
C1_Witness ==
    /\ pc = "done"
    /\ Len(rules) >= 2
    /\ rules[1].priority = rules[2].priority
    /\ Len(visited) = Len(rules)

\* No write to field f by the entries strictly between i and j of the trace.
Untouched(f, i, j) == \A k \in (i + 1)..(j - 1) : ~(trace[k].wrote /\ trace[k].field = f)

\* C2: a rule sees the document as the earlier rules of the same run left it:
\* after a rule wrote field f, a later rule guarded by has(f) or !has(f) gets
\* the guard the written value gives, and a later rule whose value is f reads
\* the written value.
C2_SeesEarlierWrites ==
    component = "completion" =>
      \A j \in 1..Len(trace) : \A i \in 1..(j - 1) :
        LET w == trace[i]
            e == trace[j]
            r == RuleOf(e.id)
        IN (w.wrote /\ w.item = 0 /\ e.item = 0 /\ Untouched(w.field, i, j)) =>
             /\ (r.apply_to.op = "has" /\ r.apply_to.f = w.field) =>
                   e.guard = IF EngineHas(w.v) THEN "true" ELSE "false"
             /\ (r.apply_to.op = "nothas" /\ r.apply_to.f = w.field) =>
                   e.guard = IF EngineHas(w.v) THEN "false" ELSE "true"
             /\ (r.rule_expression.op = "field" /\ r.rule_expression.f = w.field
                    /\ e.value # "notevaluated") => e.v = w.v

\* The priority-90 rule wrote extensions.supplier_category and the
\* priority-80 rule guarded by has(extensions.supplier_category) then applied.
C2_Witness ==
    /\ component = "completion"
    /\ engine = "db"
    /\ \E j \in 1..Len(trace) : \E i \in 1..(j - 1) :
          /\ trace[i].id = 2 /\ trace[i].wrote
          /\ trace[j].id = 3 /\ trace[j].guard = "true" /\ trace[j].wrote

\* C3: in the CEL completion engines a rule whose guard is malformed leaves a
\* log entry with status error under its name, no exception leaves the
\* engine, and the loop goes on to every other rule.
C3_MalformedGuardLogged ==
    (component = "completion" /\ engine \in {"cel", "cel_async"}) =>
      /\ pc # "raised"
      /\ \A j \in 1..Len(trace) :
            LET r == RuleOf(trace[j].id) IN
            (r.active /\ r.apply_to.op = "malformed") => Logged("error", r.rule_name)
      /\ pc = "done" => Len(visited) = Len(rules)

\* The guard of r is !has() of r's own target.
GuardedByOwnTarget(r) ==
    /\ r.apply_to.op = "nothas"
    /\ r.apply_to.f = IF IsItemsTarget(r.target_field)
                      THEN "item." \o ItemFieldOf(r.target_field)
                      ELSE r.target_field

AllGuardedByOwnTarget ==
    Len(rules) > 0 /\ \A i \in 1..Len(rules) : GuardedByOwnTarget(rules[i])

\* The value the target of trace entry e had when the run started.
TargetBefore(e) ==
    IF e.item = 0 THEN GetField(docBefore, NoItem, e.field)
    ELSE GetField(docBefore, docBefore.items[e.item], "item." \o ItemFieldOf(e.field))

\* C4 as stated: when every rule is guarded by !has(target) of its own target,
\* the second run writes nothing.
C4_SecondRunWritesNothing ==
    (component = "completion" /\ runNo = 2 /\ AllGuardedByOwnTarget) =>
      \A j \in 1..Len(trace) : ~trace[j].wrote

\* C4: when every rule is guarded by !has(target) of its own target, the second
\* run writes only targets for which has() was still false in the document the
\* first run returned; a target the first run left present is not written again.
C4_SecondRunWritesOnlyAbsent ==
    (component = "completion" /\ runNo = 2 /\ AllGuardedByOwnTarget) =>
      \A j \in 1..Len(trace) : trace[j].wrote => ~EngineHas(TargetBefore(trace[j]))

\* A finished second run in which a rule found its target present and
\* another rule wrote a target the first run had left absent.
C4_Witness ==
    /\ component = "completion" /\ runNo = 2 /\ pc = "done" /\ AllGuardedByOwnTarget
    /\ \E j \in 1..Len(trace) : trace[j].guard = "false"
    /\ \E j \in 1..Len(trace) : trace[j].wrote

\* C5: when the guard of a rule holds and its value is a lookup that finds
\* nothing, the rule writes nothing, no success entry is logged under its name
\* and no exception leaves the engine.
C5_NullLookupWritesNothing ==
    component = "completion" =>
      \A j \in 1..Len(trace) :
        LET e == trace[j]
            r == RuleOf(e.id)
        IN (e.item = 0 /\ e.guard \in {"true", "none"} /\ r.rule_expression.op = "dbq"
              /\ QueryHelper(db, r.rule_expression.q,
                             GetField(doc, NoItem, r.rule_expression.f)) = Null) =>
             /\ ~e.wrote
             /\ ~Logged("success", r.rule_name)
             /\ pc # "raised"

\* C6: with an empty rule set, the document a run works on and returns equals
\* the document it was given, in every field and every line item.
C6_EmptyRulesUnchanged ==
    (component = "completion" /\ pc \in {"running", "done"} /\ rules = <<>>) =>
      doc = docBefore

\* A finished run of an engine without rules on a document with a line item.
C6_Witness ==
    /\ component = "completion" /\ pc = "done" /\ rules = <<>> /\ runNo >= 1
    /\ Len(doc.items) >= 1

(***************************************************************************)
(* Properties of the validation engines and of the result the services     *)
(* build from their verdict.                                               *)
(***************************************************************************)
CelValidationEngines == {"cel", "cel_async", "cel_engine", "cel_engine_async"}

EntriesOf(r) ==
    Cardinality({k \in 1..Len(validation_errors) :
                    validation_errors[k].rule_name = r.rule_name})

\* The guard of r holds on the document under validation.
GuardHolds(r) ==
    LET g == GuardOf(engine, r, doc, NoItem, db) IN ~g.raised /\ Truthy(g.v)

GuardRaises(r) == GuardOf(engine, r, doc, NoItem, db).raised

\* The expression of r is falsy or raises on the document under validation.
FailsOrRaises(r) ==
    LET v == Evaluate(engine, r.rule_expression, doc, NoItem, db) IN
    v.raised \/ ~Truthy(v.v)

\* C7: a CEL validation run never ends in an exception; when it returns, every
\* rule was visited, every active rule whose guard holds had its expression
\* evaluated whatever happened to the rules before it, and the error list holds
\* exactly one entry for each active rule whose guard holds and whose
\* expression failed or raised (and for each whose guard raised), none for
\* any other rule.
C7_EveryRuleEvaluated ==
    (component = "validation" /\ engine \in CelValidationEngines) =>
      /\ pc # "raised"
      /\ pc \in {"done", "reported"} =>
            /\ Len(visited) = Len(rules)
            /\ \A i \in 1..Len(rules) :
                  LET r == rules[i] IN
                  /\ (r.active /\ GuardHolds(r)) =>
                        \E j \in 1..Len(trace) :
                            trace[j].id = r.id /\ trace[j].value # "notevaluated"
                  /\ EntriesOf(r) =
                        IF r.active /\ (GuardRaises(r) \/ (GuardHolds(r) /\ FailsOrRaises(r)))
                        THEN 1 ELSE 0
            /\ Len(vresult.errors) = Len(validation_errors)

\* A returned run whose first rule raised and whose second rule was still
\* evaluated and failed: two entries.
C7_Witness ==
    /\ component = "validation" /\ engine = "cel" /\ pc = "done"
    /\ Len(trace) = 2
    /\ trace[1].value = "raised"
    /\ trace[2].value = "failed"
    /\ Len(vresult.errors) = 2

\* C8: the single rule total_amount > 0 on a document whose total_amount is 0
\* gives isValid = false and exactly the one error string
\* "<rule name>: <error message>".
C8_PositiveTotalMessage ==
    (/\ component = "validation" /\ pc = "done"
     /\ Len(rules) = 1 /\ rules[1].active
     /\ rules[1].apply_to.op = "empty"
     /\ rules[1].rule_expression = Gt0("total_amount")
     /\ doc.fields["total_amount"] = Num(0)) =>
       vresult = [is_valid |-> FALSE,
                  errors |-> <<rules[1].rule_name \o ": " \o rules[1].error_message>>]

\* C9: the verdict validate returns is valid exactly when its error list is
\* empty.
C9_ValidIffNoErrors ==
    (component = "validation" /\ pc \in {"done", "reported"}) =>
      (vresult.is_valid <=> vresult.errors = <<>>)

\* A returned run whose only error entry comes from a rule that raised.
C9_Witness ==
    /\ component = "validation" /\ pc = "done"
    /\ ~vresult.is_valid
    /\ Len(validation_errors) = 1
    /\ validation_errors[1].kind = "error"

\* C10: every result entry carries the full document, whether validation
\* passed or failed; when it failed the entry has success = false and the
\* error list of the verdict.
C10_FailedDocumentReturnedInFull ==
    \A k \in 1..Len(results) :
      /\ results[k].has_data /\ results[k].data = doc
      /\ results[k].success = vresult.is_valid
      /\ ~vresult.is_valid => (results[k].has_errors /\ results[k].errors = vresult.errors)

\* C18: in every evaluator has(path) is false when the field is null or the
\* empty string and true for every other value, numeric zero included: a
\* validation rule guarded by has(path) is skipped exactly when the field is
\* null or the empty string.
C18_HasZeroIsPresent ==
    component = "validation" =>
      \A j \in 1..Len(trace) :
        LET e == trace[j]
            r == RuleOf(e.id)
            v == GetField(doc, NoItem, r.apply_to.f)
        IN (r.active /\ r.apply_to.op = "has") =>
             ((e.guard = "false") <=> (v = Null \/ v = Str("")))

(***************************************************************************)
(* Properties of the merge/split engine.                                   *)
(***************************************************************************)
\* Equal customer tax ids and equal supplier tax ids, a missing id being
\* equal to a missing or empty one only.
SamePair(a, b) ==
    /\ OrEmpty(a.customer_tax_no) = OrEmpty(b.customer_tax_no)
    /\ OrEmpty(a.supplier_tax_no) = OrEmpty(b.supplier_tax_no)

AllSamePair == \A i, j \in 1..Len(batch) : SamePair(batch[i], batch[j])
AllDistinctPairs == \A i, j \in 1..Len(batch) : i # j => ~SamePair(batch[i], batch[j])

RECURSIVE SumTotals(_)
SumTotals(invs) ==
    IF invs = <<>> THEN 0 ELSE Head(invs).total_amount + SumTotals(Tail(invs))

\* The stated total of d is the sum of its line amounts and its net amount
\* is the total minus the tax amount.
Balanced(d) ==
    /\ d.total_amount = SumAmount(d.items)
    /\ d.net_amount = Num(d.total_amount - OrZero(d.tax_amount))

InputsBalanced == \A i \in 1..Len(batch) : Balanced(batch[i])
MergeReturned == mop = "merge" /\ mpc = "returned"

\* C11 as stated: merging N documents of one tax-party pair gives one document
\* whose total is the sum of the N input totals.
C11_MergedTotalIsSumOfTotals ==
    (MergeReturned /\ Len(batch) >= 1 /\ AllSamePair) =>
      /\ Len(output) = 1
      /\ output[1].total_amount = SumTotals(batch)

\* C11: merging N documents of one tax-party pair gives one document; for
\* N >= 2 its total is the sum of the line amounts of the N inputs, which is
\* the sum of the N input totals when every input total is the sum of that
\* input's lines; for N = 1 the document is the input itself.
C11_MergedTotalIsSumOfLines ==
    (MergeReturned /\ Len(batch) >= 1 /\ AllSamePair) =>
      /\ Len(output) = 1
      /\ Len(batch) = 1 => output[1] = batch[1]
      /\ Len(batch) >= 2 => output[1].total_amount = SumAmount(AllItems(batch))
      /\ InputsBalanced => output[1].total_amount = SumTotals(batch)

\* Two balanced documents, one with a missing and one with an empty customer
\* id, merged into one document with a positive total.
C11_Witness ==
    /\ MergeReturned /\ Len(batch) = 2 /\ AllSamePair /\ InputsBalanced
    /\ batch[1].customer_tax_no # batch[2].customer_tax_no
    /\ Len(output) = 1
    /\ output[1].total_amount > 0

\* Lines x and y share name, tax rate and tax category.
SameLineKey(x, y) ==
    x.name = y.name /\ x.tax_rate = y.tax_rate /\ x.tax_category = y.tax_category

\* The lines of s that share name, tax rate and tax category with x, in order.
RECURSIVE LinesLike(_, _)
LinesLike(s, x) ==
    IF s = <<>> THEN <<>>
    ELSE IF SameLineKey(Head(s), x) THEN <<Head(s)>> \o LinesLike(Tail(s), x)
    ELSE LinesLike(Tail(s), x)

\* C12: when two or more documents are merged into one, each set of input
\* lines that share name, tax rate and tax category is one line of the result,
\* carrying the sums of quantity, amount and tax amount when the set has
\* several lines and being the input line itself when it has one.
C12_LinesMergedByKey ==
    (MergeReturned /\ Len(batch) >= 2 /\ AllSamePair) =>
      LET all == AllItems(batch)
          out == output[1].items
      IN \A i \in 1..Len(all) :
           LET like == LinesLike(all, all[i])
               got == LinesLike(out, all[i])
           IN /\ Len(got) = 1
              /\ Len(like) = 1 => got[1] = all[i]
              /\ Len(like) > 1 =>
                    /\ got[1].quantity = SumQuantity(like)
                    /\ got[1].amount = SumAmount(like)
                    /\ got[1].tax_amount = Num(SumTax(like))

\* C13: merging a batch in which no two documents have the same tax-party
\* pair returns the batch itself.
C13_DistinctPairsUnchanged ==
    (MergeReturned /\ AllDistinctPairs) => output = batch

\* C14: two documents of a batch get the same merge group exactly when their
\* customer tax ids are equal and their supplier tax ids are equal, so merge
\* returns as many documents as the batch has different pairs.
C14_GroupedExactlyByPair ==
    MergeReturned =>
      /\ \A i, j \in 1..Len(batch) :
            (GroupKey(batch[i]) = GroupKey(batch[j])) <=> SamePair(batch[i], batch[j])
      /\ Len(output) =
            Cardinality({<<OrEmpty(batch[i].customer_tax_no), OrEmpty(batch[i].supplier_tax_no)>> :
                           i \in 1..Len(batch)})

InBatch(d) == \E i \in 1..Len(batch) : batch[i] = d

\* C15 as stated: every document an entry point returns is balanced.
C15_EveryOutputBalanced ==
    mpc = "returned" => \A k \in 1..Len(output) : Balanced(output[k])

\* C15: every document that merge or split builds is balanced; a document
\* that is passed through is the input document, so every returned document
\* is balanced when every input document is.
C15_BuiltOutputBalanced ==
    mpc = "returned" =>
      \A k \in 1..Len(output) :
        /\ ~InBatch(output[k]) => Balanced(output[k])
        /\ InputsBalanced => Balanced(output[k])

\* merge_and_split returned a document it built next to one it passed through.
C15_Witness ==
    /\ mop = "merge_and_split" /\ mpc = "returned"
    /\ \E k \in 1..Len(output) : ~InBatch(output[k]) /\ Len(output[k].items) > 0
    /\ \E k \in 1..Len(output) : InBatch(output[k])

SingleCategory(d) ==
    \A i, j \in 1..Len(d.items) : d.items[i].tax_category = d.items[j].tax_category

\* C16: merge_and_split does not raise; what it returns is split applied to
\* the result of merge on the whole input, and no returned document holds
\* lines of more than one tax category.
C16_MergeThenSplit ==
    mop = "merge_and_split" =>
      /\ mpc # "raised"
      /\ mpc \in {"merged", "returned"} => merged = MergeByTaxParty(batch)
      /\ mpc = "returned" =>
            /\ output = SplitAll(merged)
            /\ \A k \in 1..Len(output) : SingleCategory(output[k])

\* C17: split applied to what split returned gives the same list, and split
\* returns every document whose lines have one tax category as it was given.
C17_SplitIdempotent ==
    mop = "split" =>
      /\ mpc = "resplit" => again = output
      /\ mpc \in {"returned", "resplit"} =>
            \A i \in 1..Len(batch) :
              SingleCategory(batch[i]) => \E k \in 1..Len(output) : output[k] = batch[i]

\* A second split on a list in which the first split had cut a document.
C17_Witness ==
    /\ mop = "split" /\ mpc = "resplit"
    /\ Len(output) > Len(batch)
    /\ \E i \in 1..Len(batch) : SingleCategory(batch[i]) /\ Len(batch[i].items) > 0

(***************************************************************************)
(* Properties of the lookups.                                              *)
(***************************************************************************)
\* The reference data holds a row for the parameters of this lookup.
RowFound(query_name, params) ==
    IF Queries[query_name].template = "single_field_lookup"
    THEN params[1].t = "str" /\ params[1].s \in DOMAIN Companies
    ELSE /\ params[1].t = "str" /\ HasFloat(params[2])
         /\ \E i \in 1..Len(TaxRates) :
               /\ TaxRates[i].category = params[1].s
               /\ TaxRates[i].min_amount <= params[2].n
               /\ params[2].n <= TaxRates[i].max_amount

\* C19: a lookup of a configured query whose key has no row in the reference
\* data does not raise and returns the fallback value of the configuration.
C19_MissingKeyFallsBack ==
    \A i \in 1..Len(calls) :
      (calls[i].query \in DOMAIN Queries /\ ~RowFound(calls[i].query, calls[i].params)) =>
         /\ ~calls[i].out.raised
         /\ calls[i].out.v = config.fallback_value

\* C20: with the cache enabled every lookup of a sequence gives what the same
\* lookup gives with the cache disabled.
C20_CacheTransparent ==
    config.enable_cache => \A i \in 1..Len(calls) : calls[i].out = calls[i].plain

(***************************************************************************)
(* Properties of the execution log.                                        *)
(***************************************************************************)
\* The entries the log holds for rule r and item idx.
LogEntriesOf(r, idx) ==
    {l \in 1..Len(execution_log) :
        execution_log[l].rule_name = r.rule_name /\ execution_log[l].item_index = idx}

\* The evaluations of the active rule id against item idx made by this run.
EvaluationsOf(id, idx) ==
    {j \in 1..Len(trace) :
        trace[j].id = id /\ trace[j].item = idx /\ trace[j].guard # "inactive"}

\* C26: in the CEL completion engines every evaluation of an active rule
\* against the document, or against the document and one line item, leaves
\* exactly one entry in the execution log, with status success, failed,
\* skipped or error; a falsy guard and a null value are no exception.
C26_OneEntryPerEvaluation ==
    (component = "completion" /\ engine \in {"cel", "cel_async"}) =>
      /\ \A j \in 1..Len(trace) :
            trace[j].guard # "inactive" =>
               Cardinality(LogEntriesOf(RuleOf(trace[j].id), trace[j].item))
                 = Cardinality(EvaluationsOf(trace[j].id, trace[j].item))
      /\ \A l \in 1..Len(execution_log) :
            execution_log[l].status \in {"success", "failed", "skipped", "error"}

(***************************************************************************)
(* Properties of split and of the item merge.                              *)
(***************************************************************************)
\* The tax category of a line, a missing category being the empty one.
Categories(d) == {OrEmpty(d.items[i].tax_category) : i \in 1..Len(d.items)}
CategoryLabel(c) == IF c = "" THEN Uncategorized ELSE c

\* The lines of d whose tax category is c, in the order of d.
LinesOfCategory(d, c) ==
    LET OfCategory(x) == OrEmpty(x.tax_category) = c IN SelectSeq(d.items, OfCategory)

\* The returned documents numbered as a part of d.
PartsOf(d) ==
    {k \in 1..Len(output) :
        \E i \in 1..Len(AllItems(batch)) :
           output[k].invoice_number =
              d.invoice_number \o "_" \o CategoryLabel(OrEmpty(AllItems(batch)[i].tax_category))}

\* C27: split of a document whose lines have more than one tax category
\* returns one document per category and not the document itself; the part
\* of a category holds the lines of that category in input order, its total,
\* tax and net amounts are recomputed from those lines, its header is the
\* input's and its number is the input number followed by the category.
C27_SplitPerCategory ==
    (mengine = "backend_python" /\ mop = "split" /\ mpc \in {"returned", "resplit"}) =>
      \A i \in 1..Len(batch) :
        Cardinality(Categories(batch[i])) > 1 =>
          LET d == batch[i] IN
          /\ Cardinality(PartsOf(d)) = Cardinality(Categories(d))
          /\ \A k \in 1..Len(output) : output[k].invoice_number # d.invoice_number
          /\ \A c \in Categories(d) :
                \E k \in PartsOf(d) :
                   /\ output[k].invoice_number = d.invoice_number \o "_" \o CategoryLabel(c)
                   /\ output[k].items = LinesOfCategory(d, c)
                   /\ output[k].total_amount = SumAmount(LinesOfCategory(d, c))
                   /\ output[k].tax_amount = Num(SumTax(LinesOfCategory(d, c)))
                   /\ output[k].net_amount =
                         Num(SumAmount(LinesOfCategory(d, c)) - SumTax(LinesOfCategory(d, c)))
                   /\ output[k].customer_tax_no = d.customer_tax_no
                   /\ output[k].supplier_tax_no = d.supplier_tax_no

\* split cut a document that has a line without category next to a line of a
\* category, in a batch that also held a document with lines of two categories.
C27_Witness ==
    /\ mengine = "backend_python" /\ mop = "split" /\ mpc = "returned"
    /\ \E i \in 1..Len(batch) :
          /\ Cardinality(Categories(batch[i])) = 2
          /\ "" \in Categories(batch[i])
          /\ Cardinality(PartsOf(batch[i])) = 2
    /\ \E i \in 1..Len(batch) : Cardinality(Categories(batch[i])) = 2 /\ "" \notin Categories(batch[i])

\* C28: within one merged document two input lines fall into the same item
\* group exactly when their names, their tax rates and their tax categories
\* are equal, so the merged document has one line for each different triple
\* of name, tax rate and tax category among the input lines.
C28_CombinedExactlyByKey ==
    (MergeReturned /\ Len(batch) >= 2 /\ AllSamePair) =>
      LET all == AllItems(batch) IN
      /\ \A i, j \in 1..Len(all) :
            (MergeKey(all[i]) = MergeKey(all[j])) <=> SameLineKey(all[i], all[j])
      /\ Len(output[1].items) =
            Cardinality({<<all[i].name, all[i].tax_rate, all[i].tax_category>> :
                           i \in 1..Len(all)})

\* The output lines that input line x is counted in: the line itself where it
\* was passed on, or the merged line of its item group.
CountedIn(x) ==
    LET out == AllItems(output) IN
    {k \in 1..Len(out) :
        \/ out[k] = x
        \/ /\ out[k].description = "merged"
           /\ MergeKey(out[k]) = MergeKey(x)
           /\ out[k].quantity >= x.quantity /\ out[k].amount >= x.amount}

NewTrace == SubSeq(trace', Len(trace) + 1, Len(trace'))

\* The value the target of r holds in document d (for line item i).
TargetValue(r, d, i) ==
    IF IsItemsTarget(r.target_field) THEN d.items[i].tax_rate
    ELSE GetField(d, NoItem, r.target_field)

\* One iteration of the rule loop honours rule_type: a DEFAULT rule leaves a
\* target that holds a value (not null, not the empty string) as it is, and
\* an OVERRIDE rule whose guard held and whose expression gave a value leaves
\* that value in the target.
RuleTypeStep ==
    (component = "completion" /\ pc = "running" /\ ci <= Len(rules) /\ ci' = ci + 1
       /\ rules[ci].active) =>
      LET r == rules[ci]
          places == IF IsItemsTarget(r.target_field) THEN 1..Len(doc.items) ELSE {0}
      IN \A i \in places :
           /\ (r.rule_type = "DEFAULT" /\ HasField(TargetValue(r, doc, i))) =>
                 TargetValue(r, doc', i) = TargetValue(r, doc, i)
           /\ r.rule_type = "OVERRIDE" =>
                 \A k \in 1..Len(NewTrace) :
                    (NewTrace[k].item = i /\ NewTrace[k].value = "value") =>
                       TargetValue(r, doc', i) = NewTrace[k].v

\* C25: a completion rule with rule_type DEFAULT (the value a rule without
\* rule_type gets) does not overwrite a target that holds a non-empty value,
\* and a rule with rule_type OVERRIDE overwrites the value the target holds.
C25_RuleTypeHonoured == [][RuleTypeStep]_vars

(***************************************************************************)
(* Properties of rule loading.                                             *)
(***************************************************************************)
\* C23: a reload while a run is in progress does not change the rules of
\* that run: the engines of a request keep the rule lists they held when the
\* run started, the completion stage and the validation stage use those
\* lists, and they are the lists of the rule file as it was at that moment,
\* so that a run started on the reloaded file uses the reloaded lists.
C23_ReloadNotSeenByRun ==
    \A i \in 2..Len(services) :
      services[i].state = "up" =>
        /\ services[i].completion = services[i].start_completion
        /\ services[i].validation = services[i].start_validation
        /\ services[i].pc \in {"completed", "done"} =>
              services[i].used_completion = services[i].start_completion
        /\ services[i].pc = "done" =>
              services[i].used_validation = services[i].start_validation
        /\ \A k \in 1..Len(loads) :
              (loads[k].kind = "reload" /\ loads[k].file = services[i].file_at_start
                 /\ ~HasMalformed(loads[k].file)) =>
                 /\ services[i].start_completion = loads[k].completion
                 /\ services[i].start_validation = loads[k].validation

\* A reload of other rules took place while a run was in progress, that run
\* has ended, and a run that started after the reload used the reloaded rules.
C23_Witness ==
    \E i \in 2..Len(services) : \E k \in 1..Len(loads) : \E j \in 2..Len(services) :
       /\ services[i].pc = "done"
       /\ loads[k].kind = "reload" /\ i \in loads[k].in_progress
       /\ loads[k].completion # services[i].start_completion
       /\ j > i /\ services[j].loads_at_start > k
       /\ services[j].pc = "done"
       /\ services[j].used_completion = loads[k].completion

\* C24: every load of a rule file that holds a malformed rule ends with an
\* exception that reaches the caller and names the offending rule, so that
\* no engine goes on with the empty or partly loaded rule set of that load.
C24_MalformedRuleRejected ==
    \A k \in 1..Len(loads) :
      HasMalformed(loads[k].file) =>
        /\ loads[k].raised
        /\ loads[k].named = OffendingId(loads[k].file)

(***************************************************************************)
(* Properties of batch processing.                                         *)
(***************************************************************************)
\* C21: the merge stage starts only when completion has ended, with success
\* or failure, for every file of the batch; the documents it groups are the
\* completed documents of the files that succeeded.
C21_MergeAfterAllCompleted ==
    phase = "merged" =>
      /\ \A i \in 1..Len(tasks) : tasks[i].pc \in {"done", "failed"}
      /\ grouped = SuccessfulInvoices(tasks)
      /\ Len(grouped) = Cardinality({i \in 1..Len(tasks) : tasks[i].ok})

\* The merge stage was reached by a batch of two documents whose completions
\* had overlapped: the first returned with a log that is not the log of its
\* own rules.
C21_Witness ==
    /\ phase = "merged" /\ Len(tasks) = 2
    /\ tasks[1].pc = "done" /\ tasks[2].pc = "done"
    /\ tasks[1].doc # files[1].doc
    /\ tasks[1].log # CompleteAsync(rules, Len(rules), files[1].doc, db).logs

C30_LookupBoundedByTimeout ==
    \A i \in 1..Len(tasks) :
      tasks[i].pc = "waiting" => clock - tasks[i].since <= query_timeout

=============================================================================
